---- MODULE Spec2Model ----
(***************************************************************************)
(* Cosmos query agent (remote_agents/cosmos_query_agent): the keyword      *)
(* routing of CosmosQueryAgent.process_query, the JSON-RPC tool call of    *)
(* _call_mcp_tool, and the event sequence of CosmosQueryAgentExecutor.     *)
(* Further: SemanticKernelMCPAgentExecutor (remote_agents/playwright_agent)*)
(* with its event sequence, cancel of both executors, execute calls that   *)
(* overlap on one executor, and the two MCP handshake scripts.             *)
(*                                                                         *)
(* A Python str is a sequence of one-character strings when the code looks *)
(* inside it (queries, keywords), so that `in`, lower(), split() and       *)
(* re.findall work on characters.  Fixed texts the code only concatenates  *)
(* (labels, messages) are kept as one segment each.  A Python value that   *)
(* may be None is a record [type, val].                                    *)
(***************************************************************************)
EXTENDS Integers, Sequences, FiniteSets, TLC

VARIABLES
    pc,            \* where the running coroutine stands
    _initialized,   \* CosmosQueryAgentExecutor._initialized
    task,          \* request_context.task of the running execute call
    query,         \* the argument of the latest process_query call
    repeated,      \* history: that argument equals the one of the call before
    calls,         \* how many calls have been started
    queue,         \* the events enqueued for the running execute call
    sent,          \* the POSTs sent to the MCP server by the running process_query call
    label,         \* the label of the branch that awaits its tool result
    toolResult,    \* what _call_mcp_tool returned to the running process_query call
    response,      \* what the latest process_query call returned
    errorMessage,  \* the message _send_error is sending
    inHandler,     \* _send_error was called from the except clause of execute
    outcome,       \* how the latest POST ended
    partial,       \* the item agent.stream yielded last in the running execute call
    streamed,      \* how many items agent.stream has yielded in the running call
    streamCalls,   \* how often the running execute call has called agent.stream
    cancels,       \* how many cancel calls have been made
    cancelRaised,  \* the text of the exception the latest cancel call raised
    cpc,           \* where each of the overlapping execute calls stands
    initStarts,    \* how often the agent's initialization has been started
    initFailures,  \* how often the agent's initialization has failed
    script,        \* the handshake script that runs
    requests,      \* the requests the script has sent, in order
    awaiting,      \* the script waits for the response to its latest request
    session_id,    \* the script's local session_id
    init_response, \* the response to the script's first request
    results,       \* what the responses to the script's tools/call requests held
    reported,      \* the script has printed its message of success
    health_results, \* run_agent_health_check: the status found for each agent so far
    stages         \* the test stages main has run, with what each returned

\* the state of the integration suite of test_time_agent_integration
suiteVars == <<health_results, stages>>

\* the state of a handshake script
scriptVars == <<script, requests, awaiting, session_id, init_response, results, reported>>

\* the state of overlapping execute calls
overlapVars == <<cpc, initStarts, initFailures>>

\* the state of SemanticKernelMCPAgentExecutor.execute, of cancel, of
\* overlapping calls and of the handshake scripts
ext == <<partial, streamed, streamCalls, cancels, cancelRaised, overlapVars, scriptVars,
         suiteVars>>

vars == <<pc, _initialized, task, query, repeated, calls, queue, sent, label,
          outcome, toolResult, response, errorMessage, inHandler, ext>>

-----------------------------------------------------------------------------
(* Bounds *)

\* execute / process_query calls in one behaviour
MaxCalls == 2

\* execute calls that overlap on one executor
MaxOverlap == 3

\* words in a generated query
MaxWords == 2

-----------------------------------------------------------------------------
(* Python values *)

PyNone == [type |-> "NoneType", val |-> <<>>]

PyStr(s) == [type |-> "str", val |-> s]

IsStr(v) == v.type = "str"

\* bool(v) of an Optional[str]
Truthy(v) == v.type = "str" /\ v.val # <<>>

\* format(v, "") inside an f-string
Format(v) == IF v.type = "NoneType" THEN <<"None">> ELSE v.val

UpperToLower ==
    [A |-> "a", B |-> "b", C |-> "c", D |-> "d", E |-> "e", F |-> "f", G |-> "g",
     H |-> "h", I |-> "i", J |-> "j", K |-> "k", L |-> "l", M |-> "m", N |-> "n",
     O |-> "o", P |-> "p", Q |-> "q", R |-> "r", S |-> "s", T |-> "t", U |-> "u",
     V |-> "v", W |-> "w", X |-> "x", Y |-> "y", Z |-> "z"]

\* str.lower()
Lower(s) ==
    [i \in 1..Len(s) |-> IF s[i] \in DOMAIN UpperToLower THEN UpperToLower[s[i]] ELSE s[i]]

\* kw in s
Contains(s, kw) ==
    \E i \in 0..(Len(s) - Len(kw)) : SubSeq(s, i + 1, i + Len(kw)) = kw

\* any(word in s for word in words)
AnyWordIn(words, s) == \E w \in words : Contains(s, w)

RECURSIVE SplitFrom(_, _, _)
SplitFrom(s, i, cur) ==
    IF i > Len(s)
    THEN IF cur = <<>> THEN <<>> ELSE <<cur>>
    ELSE IF s[i] = " "
         THEN IF cur = <<>> THEN SplitFrom(s, i + 1, <<>>)
              ELSE <<cur>> \o SplitFrom(s, i + 1, <<>>)
         ELSE SplitFrom(s, i + 1, Append(cur, s[i]))

\* str.split(): the whitespace-separated words (the model's only whitespace is " ")
Split(s) == SplitFrom(s, 1, <<>>)

DigitValue ==
    ("0" :> 0) @@ ("1" :> 1) @@ ("2" :> 2) @@ ("3" :> 3) @@ ("4" :> 4) @@
    ("5" :> 5) @@ ("6" :> 6) @@ ("7" :> 7) @@ ("8" :> 8) @@ ("9" :> 9)

IsDigit(c) == c \in DOMAIN DigitValue

\* re.findall(r'\d+', s)[0], or the empty sequence when re.findall returns []
FirstDigitRun(s) ==
    LET starts == {i \in 1..Len(s) : IsDigit(s[i])}
    IN  IF starts = {} THEN <<>>
        ELSE LET a == CHOOSE i \in starts : \A j \in starts : i <= j
                 b == CHOOSE j \in a..Len(s) :
                        /\ \A k \in a..j : IsDigit(s[k])
                        /\ (j = Len(s) \/ ~IsDigit(s[j + 1]))
             IN  SubSeq(s, a, b)

RECURSIVE ParseInt(_)
\* int(ds) of a run of decimal digits
ParseInt(ds) ==
    IF ds = <<>> THEN 0
    ELSE 10 * ParseInt(SubSeq(ds, 1, Len(ds) - 1)) + DigitValue[ds[Len(ds)]]

RECURSIVE IntToStr(_)
\* str(n) of a non-negative int
IntToStr(n) ==
    LET d == CHOOSE c \in DOMAIN DigitValue : DigitValue[c] = n % 10
    IN  IF n < 10 THEN <<d>> ELSE Append(IntToStr(n \div 10), d)

Min(a, b) == IF a <= b THEN a ELSE b

-----------------------------------------------------------------------------
(* CosmosQueryAgent: the tools *)

ContainerWord == <<"c","o","n","t","a","i","n","e","r">>

CollectionWord == <<"c","o","l","l","e","c","t","i","o","n">>

ActionsWord == <<"a","c","t","i","o","n","s">>

EmptyArgs == <<>>

\* the JSON-RPC request _call_mcp_tool posts
ToolCall(tool_name, arguments) ==
    [method |-> "tools/call", name |-> tool_name, arguments |-> arguments]

NoRequest == [method |-> "none", name |-> "none", arguments |-> EmptyArgs]

\* {"container_name": container_name} if container_name else {}
ContainerArgs(container_name) ==
    IF Truthy(container_name) THEN "container_name" :> container_name.val ELSE EmptyArgs

query_cosmos_db(q) == ToolCall("query_cosmos", "query" :> q)

list_containers == ToolCall("list_collections", EmptyArgs)

describe_container(container_name) ==
    ToolCall("describe_container", ContainerArgs(container_name))

DefaultLimit == 5

get_sample_documents(container_name, limit) ==
    ToolCall("get_sample_documents",
             ContainerArgs(container_name)
                @@ (IF limit # DefaultLimit THEN "limit" :> limit ELSE EmptyArgs))

count_documents(container_name) ==
    ToolCall("count_documents", ContainerArgs(container_name))

get_partition_key_info(container_name) ==
    ToolCall("get_partition_key_info", ContainerArgs(container_name))

get_indexing_policy(container_name) ==
    ToolCall("get_indexing_policy", ContainerArgs(container_name))

find_implied_links(container_name) ==
    ToolCall("find_implied_links", ContainerArgs(container_name))

-----------------------------------------------------------------------------
(* CosmosQueryAgent.process_query: the routing *)

ListKeywords ==
    { <<"l","i","s","t">>, <<"s","h","o","w">>, <<"c","o","n","t","a","i","n","e","r","s">>, <<"c","o","l","l","e","c","t","i","o","n","s">>, <<"d","a","t","a","b","a","s","e","s">> }

DescribeKeywords ==
    { <<"d","e","s","c","r","i","b","e">>, <<"s","c","h","e","m","a">>, <<"s","t","r","u","c","t","u","r","e">>, <<"f","i","e","l","d","s">> }

\* SampleKeywords with 'preview' left out of the list
SampleKeywordsNoPreview ==
    { <<"s","a","m","p","l","e">>, <<"e","x","a","m","p","l","e">>,
      <<"s","h","o","w"," ","m","e">> }

SampleKeywords ==
    { <<"s","a","m","p","l","e">>, <<"e","x","a","m","p","l","e">>, <<"p","r","e","v","i","e","w">>, <<"s","h","o","w"," ","m","e">> }

CountKeywords ==
    { <<"c","o","u","n","t">>, <<"h","o","w"," ","m","a","n","y">>, <<"n","u","m","b","e","r"," ","o","f">> }

PartitionKeywords ==
    { <<"p","a","r","t","i","t","i","o","n">>, <<"p","a","r","t","i","t","i","o","n","i","n","g">>, <<"p","a","r","t","i","t","i","o","n"," ","k","e","y">> }

IndexKeywords ==
    { <<"i","n","d","e","x">>, <<"i","n","d","e","x","i","n","g">>, <<"p","o","l","i","c","y">> }

LinkKeywords ==
    { <<"r","e","l","a","t","i","o","n","s","h","i","p">>, <<"l","i","n","k","s">>, <<"f","o","r","e","i","g","n"," ","k","e","y">>, <<"r","e","f","e","r","e","n","c","e","s">> }

SqlKeywords ==
    { <<"s","e","l","e","c","t">>, <<"f","r","o","m">> }

TimeAgentKeywords ==
    { <<"t","i","m","e","_","a","g","e","n","t">>, <<"t","i","m","e","a","g","e","n","t">>, <<"t","i","m","e"," ","a","g","e","n","t">> }

\* time_query
TimeQuery ==
    <<"S","E","L","E","C","T"," ","*"," ","F","R","O","M"," ","c"," ","W","H","E","R","E"," ","c",".","a","g","e","n","t","_","n","a","m","e"," ","="," ","'","T","i","m","e","A","g","e","n","t","'"," ","O","R","D","E","R"," ","B","Y"," ","c",".","_","t","s"," ","D","E","S","C">>

\* 'actions' if it occurs in the lower-cased query, else None
ActionsOrNone(ql) == IF Contains(ql, ActionsWord) THEN PyStr(ActionsWord) ELSE PyNone

\* the word after the first word 'container' that has a successor (the for loop
\* with its break), else None
WordAfterContainer(q) ==
    LET words == Split(q)
        hits == {i \in 1..Len(words) :
                    Lower(words[i]) = ContainerWord /\ i + 1 <= Len(words)}
    IN  IF hits = {} THEN PyNone
        ELSE PyStr(words[(CHOOSE i \in hits : \A j \in hits : i <= j) + 1])

MaxLimit == 10

\* SampleLimit without the min(..., 10)
SampleLimitUncapped(q) ==
    LET numbers == FirstDigitRun(q)
    IN  IF numbers # <<>> THEN ParseInt(numbers) ELSE DefaultLimit

\* limit of the sample branch
SampleLimit(q) ==
    LET numbers == FirstDigitRun(q)
    IN  IF numbers # <<>> THEN Min(ParseInt(numbers), MaxLimit) ELSE DefaultLimit

\* the examples quoted by the help text
SqlExample ==
    <<"S","E","L","E","C","T"," ","*"," ","F","R","O","M"," ","c"," ","W","H","E","R","E"," ","c",".","a","g","e","n","t","_","n","a","m","e"," ","="," ","'","T","i","m","e","A","g","e","n","t","'">>

TimeAgentExample ==
    <<"S","h","o","w"," ","m","e"," ","t","i","m","e","_","a","g","e","n","t"," ","e","n","t","r","i","e","s">>

ListExample ==
    <<"S","h","o","w"," ","m","e"," ","a","l","l"," ","c","o","n","t","a","i","n","e","r","s">>

DescribeExample ==
    <<"D","e","s","c","r","i","b","e"," ","t","h","e"," ","a","c","t","i","o","n","s"," ","c","o","n","t","a","i","n","e","r">>

SampleExample ==
    <<"S","h","o","w"," ","m","e"," ","s","a","m","p","l","e"," ","d","o","c","u","m","e","n","t","s"," ","f","r","o","m"," ","a","c","t","i","o","n","s">>

CountExample ==
    <<"H","o","w"," ","m","a","n","y"," ","d","o","c","u","m","e","n","t","s"," ","a","r","e"," ","i","n"," ","a","c","t","i","o","n","s","?">>

PartitionExample ==
    <<"S","h","o","w"," ","p","a","r","t","i","t","i","o","n"," ","k","e","y"," ","i","n","f","o"," ","f","o","r"," ","a","c","t","i","o","n","s">>

IndexExample ==
    <<"S","h","o","w"," ","i","n","d","e","x","i","n","g"," ","p","o","l","i","c","y">>

LinkExample ==
    <<"F","i","n","d"," ","r","e","l","a","t","i","o","n","s","h","i","p","s"," ","i","n"," ","t","h","e"," ","d","a","t","a">>

HelpIntro ==
    <<"I can help you explore and query the Cosmos DB data using these capabilities:">>

HelpOutro ==
    <<"What would you like to explore? You can ask for any of the above operations or run direct SQL queries.">>

_handle_general_query(q) ==
    HelpIntro
    \o <<"\n\n", "Query Operations:", "\n", "- Run SQL-like queries: ", "\"">> \o SqlExample
    \o <<"\"", "\n", "- Find time_agent data: ", "\"">> \o TimeAgentExample
    \o <<"\"", "\n\n", "Data Exploration:", "\n", "- List containers: ", "\"">> \o ListExample
    \o <<"\"", "\n", "- Describe schema: ", "\"">> \o DescribeExample
    \o <<"\"", "\n", "- Get samples: ", "\"">> \o SampleExample
    \o <<"\"", "\n", "- Count documents: ", "\"">> \o CountExample
    \o <<"\"", "\n\n", "Technical Info:", "\n", "- Partition keys: ", "\"">> \o PartitionExample
    \o <<"\"", "\n", "- Indexing policies: ", "\"">> \o IndexExample
    \o <<"\"", "\n", "- Relationships: ", "\"">> \o LinkExample
    \o <<"\"", "\n\n", "Your query: ", "\"">> \o q
    \o <<"\"", "\n\n">> \o HelpOutro

\* what process_query does with a query: call one tool and label its result,
\* or return a value without calling any
ToolPlan(branch, lbl, request) ==
    [kind |-> "tool", branch |-> branch, label |-> lbl, request |-> request,
     value |-> PyNone]

ReturnPlan(branch, value) ==
    [kind |-> "return", branch |-> branch, label |-> <<>>, request |-> NoRequest,
     value |-> value]

\* the if / elif chain of the try body, for a str query
RouteQuery(q) ==
    LET query_lower == Lower(q)
    IN  IF AnyWordIn(ListKeywords, query_lower)
        THEN IF Contains(query_lower, ContainerWord) \/ Contains(query_lower, CollectionWord)
             THEN ToolPlan("list", <<"Available containers in the database:">>,
                           list_containers)
             \* no else and no statement after the chain: the function ends
             ELSE ReturnPlan("list", PyNone)
        ELSE IF AnyWordIn(DescribeKeywords, query_lower)
        THEN LET container_name ==
                    IF Contains(query_lower, ActionsWord) THEN PyStr(ActionsWord)
                    ELSE IF Contains(query_lower, ContainerWord) THEN WordAfterContainer(q)
                    ELSE PyNone
             IN  ToolPlan("describe", <<"Container schema information:">>,
                          describe_container(container_name))
        ELSE IF AnyWordIn(SampleKeywords, query_lower)
        THEN ToolPlan("sample", <<"Sample documents:">>,
                      get_sample_documents(ActionsOrNone(query_lower), SampleLimit(q)))
        ELSE IF AnyWordIn(CountKeywords, query_lower)
        THEN ToolPlan("count", <<"Document count:">>,
                      count_documents(ActionsOrNone(query_lower)))
        ELSE IF AnyWordIn(PartitionKeywords, query_lower)
        THEN ToolPlan("partition", <<"Partition key information:">>,
                      get_partition_key_info(ActionsOrNone(query_lower)))
        ELSE IF AnyWordIn(IndexKeywords, query_lower)
        THEN ToolPlan("index", <<"Indexing policy:">>,
                      get_indexing_policy(ActionsOrNone(query_lower)))
        ELSE IF AnyWordIn(LinkKeywords, query_lower)
        THEN ToolPlan("links", <<"Relationship analysis:">>,
                      find_implied_links(ActionsOrNone(query_lower)))
        ELSE IF AnyWordIn(SqlKeywords, query_lower)
        THEN ToolPlan("sql", <<"Query results:">>, query_cosmos_db(q))
        ELSE IF AnyWordIn(TimeAgentKeywords, query_lower)
        THEN ToolPlan("time_agent", <<"Time Agent data:">>, query_cosmos_db(TimeQuery))
        ELSE ReturnPlan("general", PyStr(_handle_general_query(q)))

Apology == <<"Sorry, I encountered an error while processing your query: ">>

\* process_query up to its first await: query.lower() raises AttributeError on a
\* query that is no str, and the except clause returns the apology.  (int() of
\* a digit run longer than the interpreter's conversion limit raises too; no
\* query of the model is that long.)
process_query(q) ==
    IF IsStr(q) THEN RouteQuery(q.val)
    ELSE ReturnPlan("except",
                    PyStr(Apology \o <<"'NoneType' object has no attribute 'lower'">>))

\* Labelled without the newline between label and result
LabelledNoNewline(lbl, result) == PyStr(lbl \o Format(result))

\* f"{label}\n{result}"
Labelled(lbl, result) == PyStr(lbl \o <<"\n">> \o Format(result))

-----------------------------------------------------------------------------
(* CosmosQueryAgent._call_mcp_tool: what comes back from the POST *)

HttpOk == 200

NoOutcome ==
    [kind |-> "none", status |-> 0, isJson |-> FALSE, hasResult |-> FALSE,
     hasError |-> FALSE, content |-> "missing", hasText |-> FALSE, text |-> PyNone,
     hasMessage |-> FALSE, message |-> PyNone, raw |-> <<>>, exc |-> <<>>]

\* client.post raised (connection refused, timeout)
Raised(exc) == [NoOutcome EXCEPT !.kind = "exception", !.exc = exc]

\* a response whose body is no JSON document
HttpText(status, raw) ==
    [NoOutcome EXCEPT !.kind = "response", !.status = status, !.raw = raw]

\* a response whose body is a JSON object
HttpJson(status, raw) == [HttpText(status, raw) EXCEPT !.isJson = TRUE]

\* {"result": {"content": [{"type": "text", "text": t}]}}
ResultText(t) ==
    [HttpJson(HttpOk, <<"{\"result\": ...}">>) EXCEPT
        !.hasResult = TRUE, !.content = "item", !.hasText = TRUE, !.text = t]

\* the text contents a tool returns
ToolTexts == { <<"[{\"id\": \"1\", \"agent_name\": \"TimeAgent\"}]">>, <<"[]">>, <<>> }

McpOutcomes ==
    {ResultText(PyStr(t)) : t \in ToolTexts}
    \cup
    { \* "text": null
      ResultText(PyNone),
      \* a result and an error member
      [ResultText(PyStr(<<"[]">>)) EXCEPT
            !.hasError = TRUE, !.hasMessage = TRUE, !.message = PyStr(<<"ignored">>)],
      \* {"result": {}}
      [HttpJson(HttpOk, <<"{\"result\": {}}">>) EXCEPT !.hasResult = TRUE],
      \* {"result": {"content": []}}
      [HttpJson(HttpOk, <<"{\"result\": {\"content\": []}}">>) EXCEPT
            !.hasResult = TRUE, !.content = "empty"],
      \* {"result": {"content": [{"type": "image"}]}}
      [HttpJson(HttpOk, <<"{\"result\": {\"content\": [{}]}}">>) EXCEPT
            !.hasResult = TRUE, !.content = "item"],
      \* {"error": {"code": -32602, "message": "Unknown tool"}}
      [HttpJson(HttpOk, <<"{\"error\": ...}">>) EXCEPT
            !.hasError = TRUE, !.hasMessage = TRUE, !.message = PyStr(<<"Unknown tool">>)],
      \* {"error": {"code": -32603}}
      [HttpJson(HttpOk, <<"{\"error\": {}}">>) EXCEPT !.hasError = TRUE],
      \* {"jsonrpc": "2.0"}
      HttpJson(HttpOk, <<"{}">>),
      HttpText(HttpOk, <<"event: message">>),
      HttpText(404, <<"Not Found">>),
      HttpJson(500, <<"{\"error\": {\"message\": \"boom\"}}">>),
      Raised(<<"All connection attempts failed">>),
      Raised(<<>>) }

ErrorCallingTool(exc) == PyStr(<<"Error calling tool: ">> \o exc)

\* what _call_mcp_tool returns when the POST ends in outcome o
_call_mcp_tool(o) ==
    IF o.kind = "exception" THEN ErrorCallingTool(o.exc)
    ELSE IF o.status = HttpOk
    THEN IF ~o.isJson
         THEN \* response.json() raises
              ErrorCallingTool(<<"Expecting value: line 1 column 1 (char 0)">>)
         ELSE IF o.hasResult
         THEN IF o.content = "missing" THEN PyStr(<<"No result">>)
              ELSE IF o.content = "empty"
              THEN \* [][0] raises IndexError
                   ErrorCallingTool(<<"list index out of range">>)
              ELSE IF o.hasText THEN o.text ELSE PyStr(<<"No result">>)
         ELSE IF o.hasError
         THEN PyStr(<<"Error: ">>
                    \o (IF o.hasMessage THEN Format(o.message) ELSE <<"Unknown error">>))
         ELSE PyStr(<<"Unknown response format">>)
    ELSE PyStr(<<"HTTP Error ">> \o IntToStr(o.status) \o <<": ">> \o o.raw)

-----------------------------------------------------------------------------
(* Inputs *)

\* the requests the help text quotes
ExampleQueries ==
    { SqlExample, TimeAgentExample, ListExample, DescribeExample, SampleExample,
      CountExample, PartitionExample, IndexExample, LinkExample }

\* the requests test_cosmos_query_agent sends
TestQueries ==
    { <<"S","h","o","w"," ","m","e"," ","a","l","l"," ","c","o","n","t","a","i","n","e","r","s"," ","i","n"," ","t","h","e"," ","d","a","t","a","b","a","s","e">>,
      TimeAgentExample,
      <<"H","o","w"," ","m","a","n","y"," ","d","o","c","u","m","e","n","t","s"," ","a","r","e"," ","i","n"," ","t","h","e"," ","a","c","t","i","o","n","s"," ","c","o","n","t","a","i","n","e","r","?">>,
      <<"D","e","s","c","r","i","b","e"," ","t","h","e"," ","a","c","t","i","o","n","s"," ","c","o","n","t","a","i","n","e","r"," ","s","c","h","e","m","a">>,
      TimeQuery }

\* further requests a user may type
OtherQueries ==
    { <<>>,
      <<"h","e","l","l","o">>,
      <<"l","i","s","t"," ","e","v","e","r","y","t","h","i","n","g">>,
      <<"t","i","m","e"," ","a","g","e","n","t"," ","l","o","g","s">>,
      <<"S","E","L","E","C","T"," ","C","O","U","N","T","(","1",")"," ","F","R","O","M"," ","c">>,
      <<"s","e","l","e","c","t"," ","c",".","i","d"," ","f","r","o","m"," ","c">>,
      <<"g","i","v","e"," ","m","e"," ","3"," ","s","a","m","p","l","e"," ","d","o","c","u","m","e","n","t","s">>,
      <<"p","r","e","v","i","e","w"," ","2","5"," ","d","o","c","s"," ","f","r","o","m"," ","O","r","d","e","r","s">>,
      <<"s","a","m","p","l","e"," ","0","0","7"," ","o","f"," ","a","c","t","i","o","n","s">>,
      <<"t","o","p","5"," ","e","x","a","m","p","l","e","s">>,
      <<"d","e","s","c","r","i","b","e"," ","c","o","n","t","a","i","n","e","r"," ","O","r","d","e","r","s">>,
      <<"s","c","h","e","m","a"," ","o","f"," ","t","h","e"," ","c","o","n","t","a","i","n","e","r">> }

UserQueries == ExampleQueries \cup TestQueries \cup OtherQueries

\* the words generated queries are made of
Vocabulary ==
    { <<"l","i","s","t">>, <<"S","h","o","w">>, <<"c","o","n","t","a","i","n","e","r","s">>, <<"d","e","s","c","r","i","b","e">>, <<"s","a","m","p","l","e">>, <<"c","o","u","n","t">>,
      <<"p","a","r","t","i","t","i","o","n">>, <<"i","n","d","e","x">>, <<"l","i","n","k","s">>, <<"S","E","L","E","C","T">>, <<"t","i","m","e","a","g","e","n","t">>, <<"a","c","t","i","o","n","s">>,
      <<"h","e","l","l","o">>, <<"7">>, <<"2","5">> }

RECURSIVE JoinWords(_)
\* " ".join(words)
JoinWords(words) ==
    IF words = <<>> THEN <<>>
    ELSE IF Len(words) = 1 THEN words[1]
    ELSE words[1] \o <<" ">> \o JoinWords(Tail(words))

GeneratedQueries ==
    {JoinWords(ws) : ws \in UNION {[1..n -> Vocabulary] : n \in 0..MaxWords}}

\* the arguments process_query is called with directly
AgentQueries == {PyStr(q) : q \in UserQueries \cup GeneratedQueries} \cup {PyNone}

NoTask == [present |-> FALSE, id |-> "", description |-> PyNone]

\* request_context.task: absent, or a task whose description is the user query
Tasks ==
    {NoTask}
    \cup {[present |-> TRUE, id |-> "task-1", description |-> d] :
            d \in {PyStr(q) : q \in UserQueries} \cup {PyNone}}

-----------------------------------------------------------------------------
(* Events *)

\* TaskStatusUpdateEvent(task_id, status, state, message)
StatusEvent(task_id, status, state, message) ==
    [kind |-> "status", task_id |-> task_id, status |-> status, state |-> state,
     message |-> message, content |-> PyNone, title |-> ""]

\* TaskArtifactUpdateEvent(task_id, artifact = new_text_artifact(task_id, content, title))
ArtifactEvent(task_id, content, title) ==
    [kind |-> "artifact", task_id |-> task_id, status |-> "", state |-> "",
     message |-> <<>>, content |-> content, title |-> title]

RunningEvent(task_id) ==
    StatusEvent(task_id, "IN_PROGRESS", "RUNNING", <<"Processing Cosmos DB query...">>)

ResultArtifact(task_id, content) ==
    ArtifactEvent(task_id, content, "Cosmos DB Query Result")

CompletedEvent(task_id) ==
    StatusEvent(task_id, "COMPLETED", "COMPLETED",
                <<"Cosmos DB query completed successfully">>)

ErrorArtifact(task_id, error_message) ==
    ArtifactEvent(task_id,
                  PyStr(<<"Sorry, I encountered an error while querying the Cosmos DB: ">>
                        \o error_message),
                  "Error")

\* FailedEvent with the state of the completion update
FailedEventAsCompleted(task_id, error_message) ==
    StatusEvent(task_id, "COMPLETED", "COMPLETED", error_message)

FailedEvent(task_id, error_message) ==
    StatusEvent(task_id, "FAILED", "FAILED", error_message)

-----------------------------------------------------------------------------
(* State *)

Unset == [type |-> "unset", val |-> <<>>]

\* no item of agent.stream has been received
NoPartial ==
    [present |-> FALSE, require_user_input |-> FALSE, is_task_complete |-> FALSE,
     content |-> <<>>]

\* the overlapping execute calls
Coroutines == 1 .. MaxOverlap

\* no handshake script runs
NoScript == "none"

\* no response has been received
NoResponse ==
    [received |-> FALSE, status_code |-> 0, xSessionId |-> PyNone, mcpSessionId |-> PyNone,
     sse |-> FALSE, body |-> "none"]

Fresh ==
    /\ health_results = <<>>
    /\ stages = <<>>
    /\ results = <<>>
    /\ reported = FALSE
    /\ init_response = NoResponse
    /\ requests = <<>>
    /\ awaiting = FALSE
    /\ session_id = Unset
    /\ cpc = [c \in Coroutines |-> "idle"]
    /\ initStarts = 0
    /\ initFailures = 0
    /\ partial = NoPartial
    /\ streamed = 0
    /\ streamCalls = 0
    /\ cancels = 0
    /\ cancelRaised = <<>>
    /\ _initialized = FALSE
    /\ repeated = FALSE
    /\ queue = <<>>
    /\ sent = <<>>
    /\ label = <<>>
    /\ outcome = NoOutcome
    /\ toolResult = Unset
    /\ response = Unset
    /\ errorMessage = <<>>
    /\ inHandler = FALSE

\* a new executor, no call running
Init ==
    /\ Fresh
    /\ script = NoScript
    /\ pc = "idle"
    /\ calls = 0
    /\ task = NoTask
    /\ query = Unset

\* a new agent, process_query called with one of the queries
InitAgent ==
    /\ Fresh
    /\ script = NoScript
    /\ pc = "process_query"
    /\ calls = 1
    /\ task = NoTask
    /\ query \in AgentQueries

-----------------------------------------------------------------------------
(* CosmosQueryAgent.process_query, step by step *)

\* ProcessQueryCallTool with a result cache: a query equal to the one before
\* sends no POST
ProcessQueryCallToolCached ==
    /\ pc = "process_query"
    /\ LET plan == process_query(query)
       IN  /\ plan.kind = "tool"
           /\ sent' = IF repeated THEN sent ELSE Append(sent, plan.request)
           /\ label' = plan.label
    /\ pc' = "awaiting_http"
    /\ UNCHANGED <<ext, _initialized, task, query, repeated, calls, queue, outcome,
                   toolResult, response, errorMessage, inHandler>>

\* the chosen branch awaits self._call_mcp_tool(...): one POST is sent
ProcessQueryCallTool ==
    /\ pc = "process_query"
    /\ LET plan == process_query(query)
       IN  /\ plan.kind = "tool"
           /\ sent' = Append(sent, plan.request)
           /\ label' = plan.label
    /\ pc' = "awaiting_http"
    /\ UNCHANGED <<ext, _initialized, task, query, repeated, calls, queue, outcome,
                   toolResult, response, errorMessage, inHandler>>

\* the chosen branch calls no tool: process_query returns at once
ProcessQueryReturn ==
    /\ pc = "process_query"
    /\ LET plan == process_query(query)
       IN  /\ plan.kind = "return"
           /\ response' = plan.value
    /\ pc' = "returned"
    /\ UNCHANGED <<ext, _initialized, task, query, repeated, calls, queue, sent, label,
                   outcome, toolResult, errorMessage, inHandler>>

\* the POST ends in outcome o; _call_mcp_tool returns and process_query labels
\* what it returned
McpRespond(o) ==
    /\ pc = "awaiting_http"
    /\ outcome' = o
    /\ toolResult' = _call_mcp_tool(o)
    /\ response' = Labelled(label, _call_mcp_tool(o))
    /\ pc' = "returned"
    /\ UNCHANGED <<ext, _initialized, task, query, repeated, calls, queue, sent, label,
                   errorMessage, inHandler>>

-----------------------------------------------------------------------------
(* CosmosQueryAgentExecutor.execute, step by step *)

\* Raise without the except clause's _send_error: the exception is logged and
\* execute returns
RaiseSwallowed(e) ==
    /\ pc' = "done"
    /\ inHandler' = TRUE
    /\ errorMessage' = <<"Error executing Cosmos Query Agent task: ">> \o e

\* an exception e raised in the try body goes to the except clause, which calls
\* _send_error; raised inside that call it leaves execute
Raise(e) ==
    IF inHandler
    THEN /\ pc' = "raised"
         /\ UNCHANGED <<errorMessage, inHandler>>
    ELSE /\ pc' = "send_error_artifact"
         /\ inHandler' = TRUE
         /\ errorMessage' = <<"Error executing Cosmos Query Agent task: ">> \o e

QueueClosed == <<"Queue is closed.">>

ExecuteStart(t) ==
    /\ pc = "idle"
    /\ calls < MaxCalls
    /\ calls' = calls + 1
    /\ task' = t
    /\ queue' = <<>>
    /\ sent' = <<>>
    /\ label' = <<>>
    /\ outcome' = NoOutcome
    /\ toolResult' = Unset
    /\ response' = Unset
    /\ errorMessage' = <<>>
    /\ inHandler' = FALSE
    /\ repeated' = FALSE
    /\ pc' = IF _initialized THEN "get_task" ELSE "initialize"
    /\ UNCHANGED <<ext, _initialized, query>>

\* agent.initialize() returned True (the health probe's failures are swallowed
\* by _test_mcp_connection)
InitializeSucceeds ==
    /\ pc = "initialize"
    /\ _initialized' = TRUE
    /\ pc' = "get_task"
    /\ UNCHANGED <<ext, task, query, repeated, calls, queue, sent, label, outcome,
                   toolResult, response, errorMessage, inHandler>>

\* InitializeFails with _initialized set before the test of success
InitializeFailsMarked ==
    /\ pc = "initialize"
    /\ _initialized' = TRUE
    /\ errorMessage' = <<"Failed to initialize Cosmos Query Agent">>
    /\ pc' = "send_error_artifact"
    /\ UNCHANGED <<ext, task, query, repeated, calls, queue, sent, label,
                   outcome, toolResult, response, inHandler>>

\* agent.initialize() returned False (its except clause)
InitializeFails ==
    /\ pc = "initialize"
    /\ errorMessage' = <<"Failed to initialize Cosmos Query Agent">>
    /\ pc' = "send_error_artifact"
    /\ UNCHANGED <<ext, _initialized, task, query, repeated, calls, queue, sent, label,
                   outcome, toolResult, response, inHandler>>

\* request_context.task is None: task.description raises AttributeError
TaskMissing ==
    /\ pc = "get_task"
    /\ ~task.present
    /\ Raise(<<"'NoneType' object has no attribute 'description'">>)
    /\ UNCHANGED <<ext, _initialized, task, query, repeated, calls, queue, sent, label,
                   outcome, toolResult, response>>

\* EnqueueRunning with the status update left out
EnqueueRunningSkipped ==
    /\ pc = "get_task"
    /\ task.present
    /\ query' = task.description
    /\ repeated' = (task.description = query)
    /\ pc' = "process_query"
    /\ UNCHANGED <<ext, _initialized, task, calls, queue, sent, label, outcome, toolResult,
                   response, errorMessage, inHandler>>

\* the RUNNING status update is enqueued, then process_query is called
EnqueueRunning ==
    /\ pc = "get_task"
    /\ task.present
    /\ queue' = Append(queue, RunningEvent(task.id))
    /\ query' = task.description
    /\ repeated' = (task.description = query)
    /\ pc' = "process_query"
    /\ UNCHANGED <<ext, _initialized, task, calls, sent, label, outcome, toolResult,
                   response, errorMessage, inHandler>>

EnqueueRunningRaises ==
    /\ pc = "get_task"
    /\ task.present
    /\ Raise(QueueClosed)
    /\ UNCHANGED <<ext, _initialized, task, query, repeated, calls, queue, sent, label,
                   outcome, toolResult, response>>

\* the artifact with the response is enqueued
EnqueueArtifact ==
    /\ pc = "returned"
    /\ queue' = Append(queue, ResultArtifact(task.id, response))
    /\ pc' = "enqueue_completed"
    /\ UNCHANGED <<ext, _initialized, task, query, repeated, calls, sent, label, outcome,
                   toolResult, response, errorMessage, inHandler>>

EnqueueArtifactRaises ==
    /\ pc = "returned"
    /\ Raise(QueueClosed)
    /\ UNCHANGED <<ext, _initialized, task, query, repeated, calls, queue, sent, label,
                   outcome, toolResult, response>>

\* the COMPLETED status update is enqueued; execute returns
EnqueueCompleted ==
    /\ pc = "enqueue_completed"
    /\ queue' = Append(queue, CompletedEvent(task.id))
    /\ pc' = "done"
    /\ UNCHANGED <<ext, _initialized, task, query, repeated, calls, sent, label, outcome,
                   toolResult, response, errorMessage, inHandler>>

EnqueueCompletedRaises ==
    /\ pc = "enqueue_completed"
    /\ Raise(QueueClosed)
    /\ UNCHANGED <<ext, _initialized, task, query, repeated, calls, queue, sent, label,
                   outcome, toolResult, response>>

\* _send_error: request_context.task is None, task.id raises AttributeError
SendErrorTaskMissing ==
    /\ pc = "send_error_artifact"
    /\ ~task.present
    /\ Raise(<<"'NoneType' object has no attribute 'id'">>)
    /\ UNCHANGED <<ext, _initialized, task, query, repeated, calls, queue, sent, label,
                   outcome, toolResult, response>>

\* _send_error: the error artifact is enqueued
SendErrorArtifact ==
    /\ pc = "send_error_artifact"
    /\ task.present
    /\ queue' = Append(queue, ErrorArtifact(task.id, errorMessage))
    /\ pc' = "send_error_status"
    /\ UNCHANGED <<ext, _initialized, task, query, repeated, calls, sent, label, outcome,
                   toolResult, response, errorMessage, inHandler>>

SendErrorArtifactRaises ==
    /\ pc = "send_error_artifact"
    /\ task.present
    /\ Raise(QueueClosed)
    /\ UNCHANGED <<ext, _initialized, task, query, repeated, calls, queue, sent, label,
                   outcome, toolResult, response>>

\* SendErrorStatus without the return after the _send_error of a failed
\* initialization
SendErrorStatusNoReturn ==
    /\ pc = "send_error_status"
    /\ queue' = Append(queue, FailedEvent(task.id, errorMessage))
    /\ pc' = IF inHandler THEN "done" ELSE "get_task"
    /\ UNCHANGED <<ext, _initialized, task, query, repeated, calls, sent, label, outcome,
                   toolResult, response, errorMessage, inHandler>>

\* _send_error: the FAILED status update is enqueued; execute returns
SendErrorStatus ==
    /\ pc = "send_error_status"
    /\ queue' = Append(queue, FailedEvent(task.id, errorMessage))
    /\ pc' = "done"
    /\ UNCHANGED <<ext, _initialized, task, query, repeated, calls, sent, label, outcome,
                   toolResult, response, errorMessage, inHandler>>

SendErrorStatusRaises ==
    /\ pc = "send_error_status"
    /\ Raise(QueueClosed)
    /\ UNCHANGED <<ext, _initialized, task, query, repeated, calls, queue, sent, label,
                   outcome, toolResult, response>>

\* execute has returned or raised; the executor is ready for the next request
ExecuteEnd ==
    /\ pc \in {"done", "raised"}
    /\ pc' = "idle"
    /\ UNCHANGED <<ext, _initialized, task, query, repeated, calls, queue, sent, label,
                   outcome, toolResult, response, errorMessage, inHandler>>

-----------------------------------------------------------------------------
(* Specifications *)

Next ==
    \/ \E t \in Tasks : ExecuteStart(t)
    \/ InitializeSucceeds
    \/ InitializeFails
    \/ TaskMissing
    \/ EnqueueRunning
    \/ EnqueueRunningRaises
    \/ ProcessQueryCallTool
    \/ ProcessQueryReturn
    \/ \E o \in McpOutcomes : McpRespond(o)
    \/ EnqueueArtifact
    \/ EnqueueArtifactRaises
    \/ EnqueueCompleted
    \/ EnqueueCompletedRaises
    \/ SendErrorTaskMissing
    \/ SendErrorArtifact
    \/ SendErrorArtifactRaises
    \/ SendErrorStatus
    \/ SendErrorStatusRaises
    \/ ExecuteEnd

\* the executor serving one request after another
Spec == Init /\ [][Next]_vars

NextAgent ==
    \/ ProcessQueryCallTool
    \/ ProcessQueryReturn
    \/ \E o \in McpOutcomes : McpRespond(o)

\* process_query called directly on the agent, as test_cosmos_query_agent does
SpecAgent == InitAgent /\ [][NextAgent]_vars

-----------------------------------------------------------------------------
(* SemanticKernelMCPAgentExecutor.execute (remote_agents/playwright_agent),  *)
(* step by step.  The agent and the a2a event queue are no files of the      *)
(* repository: initialize_playwright either returns or raises, stream yields *)
(* any items and may raise, and enqueue_event puts its event in the queue.   *)

\* items one agent.stream call may yield
MaxPartials == 2

\* the variables of the Cosmos query agent the playwright executor has not
cosmosVars == <<query, repeated, sent, label, outcome, toolResult, response, inHandler>>

\* context.current_task: None, or the task of the request
CurrentTasks == {NoTask, [present |-> TRUE, id |-> "task-1", description |-> PyNone]}

\* task.id of the local task: the current task's, or that of new_task(context.message)
TaskId == IF task.present THEN task.id ELSE "new-task"

\* the Task object enqueued after new_task
TaskEvent(task_id) ==
    [kind |-> "task", task_id |-> task_id, state |-> "submitted", final |-> "absent",
     message |-> <<>>]

\* TaskStatusUpdateEvent(status=TaskStatus(state, message), final, task_id)
PwStatusEvent(task_id, state, message, final) ==
    [kind |-> "status-update", task_id |-> task_id, state |-> state, final |-> final,
     message |-> message]

\* TaskArtifactUpdateEvent(append, last_chunk, artifact=new_text_artifact(name, text))
PwArtifactEvent(task_id, text, append, last_chunk) ==
    [kind |-> "artifact-update", task_id |-> task_id, name |-> "current_result",
     text |-> text, append |-> append, last_chunk |-> last_chunk]

\* the items of agent.stream: dicts with the three keys execute reads
Partials ==
    [present : {TRUE}, require_user_input : BOOLEAN, is_task_complete : BOOLEAN,
     content : {<<"Navigated to the page.">>, <<"Which page?">>}]

\* exceptions of initialize_playwright and of stream
AgentErrors == {<<"MCP server not reachable">>}

\* the except clause of a for loop that never ran: require_input is unbound
UnboundLocalError ==
    <<"cannot access local variable 'require_input' where it is not associated with a value">>

InitPlaywright ==
    /\ Fresh
    /\ script = NoScript
    /\ pc = "pw_idle"
    /\ calls = 0
    /\ task = NoTask
    /\ query = Unset

PwExecuteStart(t) ==
    /\ pc = "pw_idle"
    /\ calls < MaxCalls
    /\ calls' = calls + 1
    /\ task' = t
    /\ queue' = <<>>
    /\ partial' = NoPartial
    /\ streamed' = 0
    /\ streamCalls' = 0
    /\ errorMessage' = <<>>
    /\ pc' = IF _initialized THEN "pw_get_task" ELSE "pw_initialize"
    /\ UNCHANGED <<cosmosVars, overlapVars, scriptVars, suiteVars, _initialized, cancels, cancelRaised>>

\* await self.agent.initialize_playwright() returns
PwInitializeSucceeds ==
    /\ pc = "pw_initialize"
    /\ _initialized' = TRUE
    /\ pc' = "pw_get_task"
    /\ UNCHANGED <<cosmosVars, ext, task, calls, queue, errorMessage>>

\* PwInitializeRaises with _initialized set before the await
PwInitializeRaisesMarked(e) ==
    /\ pc = "pw_initialize"
    /\ _initialized' = TRUE
    /\ errorMessage' = <<"Failed to initialize Playwright agent: ">> \o e
    /\ pc' = "pw_init_failed_task"
    /\ UNCHANGED <<cosmosVars, ext, task, calls, queue>>

\* await self.agent.initialize_playwright() raises e
PwInitializeRaises(e) ==
    /\ pc = "pw_initialize"
    /\ errorMessage' = <<"Failed to initialize Playwright agent: ">> \o e
    /\ pc' = "pw_init_failed_task"
    /\ UNCHANGED <<cosmosVars, ext, _initialized, task, calls, queue>>

\* PwInitFailedStatus falling through to line 63 instead of returning
PwInitFailedStatusNoReturn ==
    /\ pc = "pw_init_failed_status"
    /\ queue' = Append(queue, PwStatusEvent(TaskId, "failed", errorMessage, "absent"))
    /\ pc' = "pw_get_task"
    /\ UNCHANGED <<cosmosVars, ext, _initialized, task, calls, errorMessage>>

\* the except clause of the initialization: a task is created and enqueued
\* when the request has none
PwInitFailedTask ==
    /\ pc = "pw_init_failed_task"
    /\ queue' = IF task.present THEN queue ELSE Append(queue, TaskEvent(TaskId))
    /\ pc' = "pw_init_failed_status"
    /\ UNCHANGED <<cosmosVars, ext, _initialized, task, calls, errorMessage>>

\* the failed status update of the initialization; execute returns
PwInitFailedStatus ==
    /\ pc = "pw_init_failed_status"
    /\ queue' = Append(queue, PwStatusEvent(TaskId, "failed", errorMessage, "absent"))
    /\ pc' = "pw_done"
    /\ UNCHANGED <<cosmosVars, ext, _initialized, task, calls, errorMessage>>

\* lines 63-70: a task is created and enqueued when the request has none
PwGetTask ==
    /\ pc = "pw_get_task"
    /\ queue' = IF task.present THEN queue ELSE Append(queue, TaskEvent(TaskId))
    /\ pc' = "pw_stream"
    /\ UNCHANGED <<cosmosVars, ext, _initialized, task, calls, errorMessage>>

\* the call self.agent.stream(query, task.context_id)
PwStreamCall ==
    /\ pc = "pw_stream"
    /\ streamCalls' = streamCalls + 1
    /\ pc' = "pw_streaming"
    /\ UNCHANGED <<cosmosVars, overlapVars, scriptVars, suiteVars, _initialized, task, calls, queue, errorMessage, partial,
                   streamed, cancels, cancelRaised>>

\* one iteration of the async for: the three locals are overwritten
PwStreamYields(p) ==
    /\ pc = "pw_streaming"
    /\ streamed < MaxPartials
    /\ partial' = p
    /\ streamed' = streamed + 1
    /\ UNCHANGED <<cosmosVars, overlapVars, scriptVars, suiteVars, pc, _initialized, task, calls, queue, errorMessage,
                   streamCalls, cancels, cancelRaised>>

\* the stream raises e
PwStreamRaises(e) ==
    /\ pc = "pw_streaming"
    /\ errorMessage' = <<"Playwright agent execution failed: ">> \o e
    /\ pc' = "pw_failed"
    /\ UNCHANGED <<cosmosVars, ext, _initialized, task, calls, queue>>


\* PwBranch with the two tests of the if chain exchanged
PwBranchDoneFirst(p) ==
    IF p.is_task_complete THEN "pw_artifact"
    ELSE IF p.require_user_input THEN "pw_input_required"
    ELSE "pw_working"

\* the if chain after the loop, on the locals the last item left
PwBranch(p) ==
    IF p.require_user_input THEN "pw_input_required"
    ELSE IF p.is_task_complete THEN "pw_artifact"
    ELSE "pw_working"

\* the stream is exhausted; after no item the test of require_input raises
PwStreamEnds ==
    /\ pc = "pw_streaming"
    /\ IF partial.present
       THEN /\ pc' = PwBranch(partial)
            /\ UNCHANGED errorMessage
       ELSE /\ pc' = "pw_failed"
            /\ errorMessage' = <<"Playwright agent execution failed: ">> \o UnboundLocalError
    /\ UNCHANGED <<cosmosVars, ext, _initialized, task, calls, queue>>

PwEnqueueInputRequired ==
    /\ pc = "pw_input_required"
    /\ queue' = Append(queue, PwStatusEvent(TaskId, "input_required", partial.content, "True"))
    /\ pc' = "pw_done"
    /\ UNCHANGED <<cosmosVars, ext, _initialized, task, calls, errorMessage>>

PwEnqueueArtifact ==
    /\ pc = "pw_artifact"
    /\ queue' = Append(queue, PwArtifactEvent(TaskId, partial.content, "False", "True"))
    /\ pc' = "pw_completed"
    /\ UNCHANGED <<cosmosVars, ext, _initialized, task, calls, errorMessage>>

PwEnqueueCompleted ==
    /\ pc = "pw_completed"
    /\ queue' = Append(queue, PwStatusEvent(TaskId, "completed", <<>>, "True"))
    /\ pc' = "pw_done"
    /\ UNCHANGED <<cosmosVars, ext, _initialized, task, calls, errorMessage>>

PwEnqueueWorking ==
    /\ pc = "pw_working"
    /\ queue' = Append(queue, PwStatusEvent(TaskId, "working", partial.content, "False"))
    /\ pc' = "pw_done"
    /\ UNCHANGED <<cosmosVars, ext, _initialized, task, calls, errorMessage>>

\* the except clause of the try around the stream
PwEnqueueFailed ==
    /\ pc = "pw_failed"
    /\ queue' = Append(queue, PwStatusEvent(TaskId, "failed", errorMessage, "absent"))
    /\ pc' = "pw_done"
    /\ UNCHANGED <<cosmosVars, ext, _initialized, task, calls, errorMessage>>

\* execute has returned; the next request may come
PwExecuteEnd ==
    /\ pc = "pw_done"
    /\ pc' = "pw_idle"
    /\ UNCHANGED <<cosmosVars, ext, _initialized, task, calls, queue, errorMessage>>

NextPlaywright ==
    \/ \E t \in CurrentTasks : PwExecuteStart(t)
    \/ PwInitializeSucceeds
    \/ \E e \in AgentErrors : PwInitializeRaises(e)
    \/ PwInitFailedTask
    \/ PwInitFailedStatus
    \/ PwGetTask
    \/ PwStreamCall
    \/ \E p \in Partials : PwStreamYields(p)
    \/ \E e \in AgentErrors : PwStreamRaises(e)
    \/ PwStreamEnds
    \/ PwEnqueueInputRequired
    \/ PwEnqueueArtifact
    \/ PwEnqueueCompleted
    \/ PwEnqueueWorking
    \/ PwEnqueueFailed
    \/ PwExecuteEnd

\* the playwright executor serving one request after another
SpecPlaywright == InitPlaywright /\ [][NextPlaywright]_vars

-----------------------------------------------------------------------------
(* cancel of the two executors *)

\* cancel calls in one behaviour
MaxCancels == 2

\* where SemanticKernelMCPAgentExecutor.execute can stand
PwStates ==
    {"pw_idle", "pw_initialize", "pw_init_failed_task", "pw_init_failed_status",
     "pw_get_task", "pw_stream", "pw_streaming", "pw_input_required", "pw_artifact",
     "pw_completed", "pw_working", "pw_failed", "pw_done"}

\* a cancel that enqueues a canceled status update and returns
CancelEnqueues ==
    /\ cancels < MaxCancels
    /\ cancels' = cancels + 1
    /\ queue' = Append(queue, PwStatusEvent(TaskId, "canceled", <<>>, "True"))
    /\ UNCHANGED <<cosmosVars, overlapVars, scriptVars, suiteVars, pc, _initialized, task, calls, errorMessage, partial,
                   streamed, streamCalls, cancelRaised>>

\* CosmosQueryAgentExecutor.cancel: logs and raises
CosmosCancel ==
    /\ pc \notin PwStates
    /\ cancels < MaxCancels
    /\ cancels' = cancels + 1
    /\ cancelRaised' = <<"Cosmos Query Agent task was cancelled">>
    /\ UNCHANGED <<cosmosVars, overlapVars, scriptVars, suiteVars, pc, _initialized, task, calls, queue, errorMessage, partial,
                   streamed, streamCalls>>

\* SemanticKernelMCPAgentExecutor.cancel: raises
PwCancel ==
    /\ pc \in PwStates
    /\ cancels < MaxCancels
    /\ cancels' = cancels + 1
    /\ cancelRaised' = <<"cancel not supported">>
    /\ UNCHANGED <<cosmosVars, overlapVars, scriptVars, suiteVars, pc, _initialized, task, calls, queue, errorMessage, partial,
                   streamed, streamCalls>>

NextExecutors ==
    \/ Next
    \/ CosmosCancel
    \/ NextPlaywright
    \/ PwCancel

\* one executor of either class, serving one request after another, with
\* cancel called at any point
SpecExecutors == (Init \/ InitPlaywright) /\ [][NextExecutors]_vars

-----------------------------------------------------------------------------
(* Overlapping execute calls on one executor.  An execute call runs without  *)
(* interruption from one await to the next; the test of _initialized and the *)
(* start of the initialization are one such stretch, the assignment of       *)
(* _initialized follows the await of the initialization.                     *)

\* what an overlapping call does not touch
sequentialVars ==
    <<pc, task, query, repeated, calls, queue, sent, label, outcome, toolResult, response,
      errorMessage, inHandler, partial, streamed, streamCalls, cancels, cancelRaised,
      scriptVars, suiteVars>>

InitConcurrent ==
    /\ Fresh
    /\ script = NoScript
    /\ pc = "overlapping"
    /\ calls = 0
    /\ task = NoTask
    /\ query = Unset

\* call c starts: 'if not self._initialized' and, when it is False, the call
\* of the initialization up to its first await
CoExecuteStart(c) ==
    /\ cpc[c] = "idle"
    /\ IF _initialized
       THEN /\ cpc' = [cpc EXCEPT ![c] = "running"]
            /\ UNCHANGED initStarts
       ELSE /\ cpc' = [cpc EXCEPT ![c] = "initializing"]
            /\ initStarts' = initStarts + 1
    /\ UNCHANGED <<sequentialVars, _initialized, initFailures>>

\* the initialization awaited by call c succeeds: _initialized = True
CoInitializeSucceeds(c) ==
    /\ cpc[c] = "initializing"
    /\ _initialized' = TRUE
    /\ cpc' = [cpc EXCEPT ![c] = "running"]
    /\ UNCHANGED <<sequentialVars, initStarts, initFailures>>

\* the initialization awaited by call c fails: the call reports it
CoInitializeFails(c) ==
    /\ cpc[c] = "initializing"
    /\ initFailures' = initFailures + 1
    /\ cpc' = [cpc EXCEPT ![c] = "reporting"]
    /\ UNCHANGED <<sequentialVars, _initialized, initStarts>>

\* call c has enqueued its last event and returns
CoReturn(c) ==
    /\ cpc[c] \in {"running", "reporting"}
    /\ cpc' = [cpc EXCEPT ![c] = "done"]
    /\ UNCHANGED <<sequentialVars, _initialized, initStarts, initFailures>>

NextConcurrent ==
    \E c \in Coroutines :
        \/ CoExecuteStart(c)
        \/ CoInitializeSucceeds(c)
        \/ CoInitializeFails(c)
        \/ CoReturn(c)

\* execute calls of one executor that overlap, switching at the awaits
SpecConcurrent == InitConcurrent /\ [][NextConcurrent]_vars

-----------------------------------------------------------------------------
(* The handshake scripts proper_mcp_sequence (test_proper_mcp.py) and        *)
(* test_simple_mcp (test_simple_mcp.py): one POST after the other, each      *)
(* awaited (httpx) or blocking (requests) until its response is there.       *)

Scripts == {"proper_mcp_sequence", "test_simple_mcp"}

\* a JSON-RPC request as posted: its method, its id (a notification has
\* none), the tool it names and its mcp-session-id header
Request(method, hasId, id, name, session) ==
    [method |-> method, hasId |-> hasId, id |-> id, name |-> name, session |-> session]

\* the id of the script's initialize request
InitializeId(s) == IF s = "proper_mcp_sequence" THEN 1 ELSE 0

\* the tools/call requests of the script, in its order
ToolCalls(s) ==
    IF s = "proper_mcp_sequence"
    THEN << [name |-> "list_collections", id |-> 2] >>
    ELSE << [name |-> "log_action", id |-> 1], [name |-> "log_action", id |-> 2],
            [name |-> "query_cosmos", id |-> 3], [name |-> "get_stats", id |-> 4] >>

\* what the server may answer: the status, the two session headers (absent,
\* empty or a session id), an event stream ('event: message' with a data
\* line) or a plain body, and what the data line or body is: a JSON-RPC
\* result, a JSON-RPC error, another JSON value, or no JSON
Responses ==
    [received : {TRUE}, status_code : {HttpOk, 500},
     xSessionId : {PyNone, PyStr(<<"session-x">>)},
     mcpSessionId : {PyNone, PyStr(<<>>), PyStr(<<"session-1">>)},
     sse : BOOLEAN,
     body : {"result", "error", "not_object", "not_json"}]

\* a or b of two header values
PyOr(a, b) == IF Truthy(a) THEN a ELSE b

\* the session id the script takes from the initialize response
SessionIdOf(s, r) ==
    IF s = "proper_mcp_sequence"
    THEN r.mcpSessionId
    ELSE PyOr(r.xSessionId, r.mcpSessionId)

\* the script's parsing of a response raises; only event streams are parsed:
\* proper_mcp_sequence has no handler around json.loads, test_simple_mcp
\* catches JSONDecodeError only and does not parse the initialize response
ParseRaises(s, r, isInit) ==
    /\ r.sse
    /\ IF s = "proper_mcp_sequence"
       THEN r.body \in {"not_object", "not_json"}
       ELSE ~isInit /\ r.body = "not_object"

\* where the script stands after an exception: proper_mcp_sequence prints it
\* and returns, test_simple_mcp lets it pass
AfterException(s) == IF s = "proper_mcp_sequence" THEN "sc_returned" ELSE "sc_raised"

\* what a handshake script does not touch
executorVars ==
    <<_initialized, task, query, repeated, calls, queue, sent, label, outcome, toolResult,
      response, errorMessage, inHandler, partial, streamed, streamCalls, cancels,
      cancelRaised, overlapVars, suiteVars>>

InitScripts ==
    /\ Fresh
    /\ script \in Scripts
    /\ pc = "sc_start"
    /\ calls = 0
    /\ task = NoTask
    /\ query = Unset

\* the POST of the initialize request
ScSendInitialize ==
    /\ pc = "sc_start"
    /\ requests' = Append(requests, Request("initialize", TRUE, InitializeId(script), "", PyNone))
    /\ awaiting' = TRUE
    /\ pc' = "sc_init_sent"
    /\ UNCHANGED <<executorVars, results, reported, script, session_id, init_response>>

\* the awaited POST raises (connection refused, timeout)
ScPostRaises ==
    /\ awaiting
    /\ awaiting' = FALSE
    /\ pc' = AfterException(script)
    /\ UNCHANGED <<executorVars, results, reported, script, requests, session_id, init_response>>

\* ScInitResponse going on to the tool calls without the notification
ScInitResponseSkipsNotification(r) ==
    /\ pc = "sc_init_sent"
    /\ awaiting' = FALSE
    /\ init_response' = r
    /\ session_id' = SessionIdOf(script, r)
    /\ pc' = "sc_tool"
    /\ UNCHANGED <<executorVars, results, reported, script, requests>>

\* the response to initialize: test_simple_mcp returns on a status other than
\* 200 and on a missing session id, proper_mcp_sequence takes the header as
\* it is and parses the body
ScInitResponse(r) ==
    /\ pc = "sc_init_sent"
    /\ awaiting' = FALSE
    /\ init_response' = r
    /\ IF script = "test_simple_mcp" /\ r.status_code # HttpOk
       THEN /\ pc' = "sc_returned"
            /\ UNCHANGED session_id
       ELSE /\ session_id' = SessionIdOf(script, r)
            /\ pc' = IF script = "test_simple_mcp" /\ ~Truthy(SessionIdOf(script, r))
                        THEN "sc_returned"
                     ELSE IF ParseRaises(script, r, TRUE)
                        THEN AfterException(script)
                     ELSE "sc_notify"
    /\ UNCHANGED <<executorVars, results, reported, script, requests>>

\* the POST of notifications/initialized with the session header; a header
\* value None makes the client raise before anything is sent
ScSendNotification ==
    /\ pc = "sc_notify"
    /\ IF IsStr(session_id)
       THEN /\ requests' = Append(requests,
                    Request("notifications/initialized", FALSE, 0, "", session_id))
            /\ awaiting' = TRUE
            /\ pc' = "sc_notify_sent"
       ELSE /\ pc' = AfterException(script)
            /\ UNCHANGED <<requests, awaiting>>
    /\ UNCHANGED <<executorVars, results, reported, script, session_id, init_response>>

\* the response to the notification: its status is printed
ScNotificationResponse(r) ==
    /\ pc = "sc_notify_sent"
    /\ awaiting' = FALSE
    /\ pc' = "sc_tool"
    /\ UNCHANGED <<executorVars, results, reported, script, requests, session_id, init_response>>

\* how many tools/call requests the script has sent
ToolCallsSent == Cardinality({i \in DOMAIN requests : requests[i].method = "tools/call"})

\* the POST of the next tools/call with the session header
ScSendToolCall ==
    /\ pc = "sc_tool"
    /\ LET call == ToolCalls(script)[ToolCallsSent + 1]
       IN  requests' = Append(requests,
                Request("tools/call", TRUE, call.id, call.name, session_id))
    /\ awaiting' = TRUE
    /\ pc' = "sc_tool_sent"
    /\ UNCHANGED <<executorVars, results, reported, script, session_id, init_response>>

\* the response to a tools/call: it is parsed and printed; the script goes on
\* to its next tools/call or returns.  proper_mcp_sequence prints 'Tool
\* Success' for a result in an event stream; test_simple_mcp prints its
\* summary ('MCP Server test completed successfully', ...) after its last
\* response
ScToolResponse(r) ==
    /\ pc = "sc_tool_sent"
    /\ awaiting' = FALSE
    /\ results' = Append(results, r.body)
    /\ pc' = IF ParseRaises(script, r, FALSE) THEN AfterException(script)
             ELSE IF ToolCallsSent < Len(ToolCalls(script)) THEN "sc_tool"
             ELSE "sc_returned"
    /\ reported' = IF ParseRaises(script, r, FALSE) THEN FALSE
                   ELSE IF script = "proper_mcp_sequence" THEN r.sse /\ r.body = "result"
                   ELSE ToolCallsSent = Len(ToolCalls(script))
    /\ UNCHANGED <<executorVars, script, requests, session_id, init_response>>

NextScripts ==
    \/ ScSendInitialize
    \/ ScPostRaises
    \/ \E r \in Responses : ScInitResponse(r)
    \/ ScSendNotification
    \/ \E r \in Responses : ScNotificationResponse(r)
    \/ ScSendToolCall
    \/ \E r \in Responses : ScToolResponse(r)

\* one run of either handshake script against any server
SpecScripts == InitScripts /\ [][NextScripts]_vars

-----------------------------------------------------------------------------
(* The session probes test_direct_cosmos_insert (test_direct_cosmos.py),     *)
(* test_mcp_complete, test_mcp_cosmos_working and test_cosmos_query          *)
(* (test_read_only_cosmos.py): a first request, the session id of its        *)
(* response, and the requests that follow when there is one.                 *)

ProbeScripts ==
    {"test_direct_cosmos_insert", "test_mcp_complete", "test_mcp_cosmos_working",
     "test_cosmos_query"}

\* the first request of the script; test_cosmos_query posts an empty object
FirstRequest(s) ==
    IF s = "test_cosmos_query" THEN Request("", FALSE, 0, "", PyNone)
    ELSE IF s = "test_mcp_cosmos_working" THEN Request("tools/list", TRUE, 1, "", PyNone)
    ELSE Request("initialize", TRUE, 1, "", PyNone)

\* the session id the script reads from the first response
ProbeSessionIdOf(s, r) ==
    IF s = "test_mcp_complete" THEN PyOr(r.mcpSessionId, r.xSessionId)
    ELSE IF s = "test_cosmos_query" THEN r.xSessionId
    ELSE r.mcpSessionId

\* answers to the first request: the scripts read its status and headers only
FirstResponses ==
    [received : {TRUE}, status_code : {HttpOk, 500},
     xSessionId : {PyNone, PyStr(<<"session-x">>)},
     mcpSessionId : {PyNone, PyStr(<<>>), PyStr(<<"session-1">>)},
     sse : {FALSE}, body : {"none"}]

\* answers to the later requests: status 200 with an event stream holding a
\* result (for tools/list: tools with a cosmos tool, tools without one, or no
\* tools member), an error (method not found, another code, or no code at
\* all), another JSON value or no JSON; status 200 with a plain JSON body
\* holding a result or an error; or status 500
LaterResponses ==
    [status_code : {HttpOk}, sse : {TRUE},
     body : {"result", "result_other_tools", "result_no_tools", "method_not_found",
             "error", "error_no_code", "not_json", "not_object"}]
    \cup [status_code : {HttpOk}, sse : {FALSE}, body : {"result", "error"}]
    \cup {[status_code |-> 500, sse |-> TRUE, body |-> "result"]}

\* the data line parses to an object with a 'result' member
HasResult(r) == r.body \in {"result", "result_other_tools", "result_no_tools"}

\* the text of the response contains 'error'
HasError(r) == r.body \in {"method_not_found", "error", "error_no_code"}

\* tool_names_to_try of test_direct_cosmos_insert
tool_names_to_try ==
    <<"cosmos_db_insert_item", "cosmos_db_insert", "insert_document", "cosmos_insert",
      "cosmos_db_query_items">>

\* the request the script sends as its k-th, k > 1, with its session header
\* (test_mcp_complete names the header mcp-session-id, then x-session-id;
\* test_mcp_cosmos_working calls the cosmos tool the tools list named)
ProbeRequest(s, k, sid) ==
    IF s = "test_direct_cosmos_insert"
        THEN Request("tools/call", TRUE, 3, tool_names_to_try[k - 1], sid)
    ELSE IF s = "test_mcp_complete"
        THEN Request("tools/list", TRUE, 2, "", sid)
    ELSE IF s = "test_cosmos_query"
        THEN Request("tools/call", TRUE, 1, "query_cosmos", sid)
    ELSE IF k = 2 THEN Request("initialize", TRUE, 2, "", sid)
    ELSE IF k = 3 THEN Request("tools/list", TRUE, 3, "", sid)
    ELSE Request("tools/call", TRUE, 4, "cosmos_db_insert_item", sid)


\* where the script stands after the response r to its k-th request, k > 1:
\* it sends its next request or has returned True, False, None or the tools
ProbeStep(s, k, r) ==
    LET stream == r.status_code = HttpOk /\ r.sse
    IN  IF s = "test_direct_cosmos_insert" THEN
            IF stream /\ HasResult(r) THEN "pr_True"
            ELSE IF stream /\ r.body \in {"error_no_code", "not_object"} THEN "pr_False"
            ELSE IF k - 1 < Len(tool_names_to_try) THEN "pr_send"
            ELSE "pr_False"
        ELSE IF s = "test_mcp_complete" THEN
            IF r.status_code = HttpOk /\ ~HasError(r)
            THEN IF r.sse /\ r.body \in {"result", "result_other_tools"} THEN "pr_tools"
                 ELSE "pr_None"
            ELSE IF k = 2 THEN "pr_send"
            ELSE "pr_None"
        ELSE IF s = "test_cosmos_query" THEN "pr_None"
        ELSE IF k = 2 THEN (IF r.status_code = HttpOk THEN "pr_send" ELSE "pr_False")
        ELSE IF k = 3 THEN (IF stream /\ r.body = "result" THEN "pr_send" ELSE "pr_False")
        ELSE IF stream /\ HasResult(r) THEN "pr_True"
        ELSE "pr_False"

\* the script prints its message of success on the response r to its k-th
\* request: 'SUCCESS with ...', 'Success with ...', 'SUCCESS! Data inserted'
ProbeReports(s, k, r) ==
    IF s = "test_mcp_complete" THEN r.status_code = HttpOk /\ ~HasError(r)
    ELSE IF s = "test_cosmos_query" THEN FALSE
    ELSE ProbeStep(s, k, r) = "pr_True"

\* where the script stands after an exception of a POST: the three httpx
\* scripts catch it, test_cosmos_query lets it pass
ProbeAfterException(s) ==
    IF s = "test_mcp_complete" THEN "pr_None"
    ELSE IF s = "test_cosmos_query" THEN "pr_raised"
    ELSE "pr_False"

InitProbes ==
    /\ Fresh
    /\ script \in ProbeScripts
    /\ pc = "pr_start"
    /\ calls = 0
    /\ task = NoTask
    /\ query = Unset

\* the POST of the first request
PrSendFirst ==
    /\ pc = "pr_start"
    /\ requests' = Append(requests, FirstRequest(script))
    /\ awaiting' = TRUE
    /\ pc' = "pr_first_sent"
    /\ UNCHANGED <<executorVars, results, reported, script, session_id, init_response>>

\* the awaited POST raises
PrPostRaises ==
    /\ awaiting
    /\ awaiting' = FALSE
    /\ pc' = ProbeAfterException(script)
    /\ UNCHANGED <<executorVars, results, reported, script, requests, session_id,
                   init_response>>

\* PrFirstResponse without the test of the session id
PrFirstResponseNoGate(r) ==
    /\ pc = "pr_first_sent"
    /\ awaiting' = FALSE
    /\ init_response' = r
    /\ session_id' = ProbeSessionIdOf(script, r)
    /\ pc' = "pr_send"
    /\ UNCHANGED <<executorVars, results, reported, script, requests>>

\* the first response: test_cosmos_query returns on a status other than 200;
\* every script returns when the header it reads holds no session id
PrFirstResponse(r) ==
    /\ pc = "pr_first_sent"
    /\ awaiting' = FALSE
    /\ init_response' = r
    /\ IF script = "test_cosmos_query" /\ r.status_code # HttpOk
       THEN /\ pc' = "pr_None"
            /\ UNCHANGED session_id
       ELSE /\ session_id' = ProbeSessionIdOf(script, r)
            /\ pc' = IF Truthy(ProbeSessionIdOf(script, r)) THEN "pr_send"
                     ELSE IF script \in {"test_mcp_complete", "test_cosmos_query"}
                        THEN "pr_None"
                     ELSE "pr_False"
    /\ UNCHANGED <<executorVars, results, reported, script, requests>>

\* the POST of the script's next request, with the session id in its header
PrSend ==
    /\ pc = "pr_send"
    /\ requests' = Append(requests, ProbeRequest(script, Len(requests) + 1, session_id))
    /\ awaiting' = TRUE
    /\ pc' = "pr_sent"
    /\ UNCHANGED <<executorVars, results, reported, script, session_id, init_response>>

\* the response to a later request
PrResponse(r) ==
    /\ pc = "pr_sent"
    /\ awaiting' = FALSE
    /\ results' = Append(results, r)
    /\ pc' = ProbeStep(script, Len(requests), r)
    /\ reported' = (reported \/ ProbeReports(script, Len(requests), r))
    /\ UNCHANGED <<executorVars, script, requests, session_id, init_response>>

NextProbes ==
    \/ PrSendFirst
    \/ PrPostRaises
    \/ \E r \in FirstResponses : PrFirstResponse(r)
    \/ PrSend
    \/ \E r \in LaterResponses : PrResponse(r)

\* one run of one of the four probes against any server
SpecProbes == InitProbes /\ [][NextProbes]_vars

-----------------------------------------------------------------------------
(* The integration suite main() of host_agent/test_time_agent_integration:   *)
(* the health check of the three agents, then the test stages.  The routing  *)
(* agent is no file of the repository: a stage that uses it returns True or  *)
(* False.                                                                    *)

\* agent_urls of run_agent_health_check, in its order
agent_urls == <<"ToolAgent", "PlaywrightAgent", "TimeAgent">>

\* how the GET of an agent card ends: status 200 with a JSON object, status
\* 200 with another body, another status, httpx.ConnectError, another exception
CardOutcomes == {"card", "not_json", "other_status", "connect_error", "exception"}

\* the status run_agent_health_check records for an outcome
HealthStatus(o) ==
    IF o = "card" THEN "healthy"
    ELSE IF o = "other_status" THEN "unhealthy"
    ELSE IF o = "connect_error" THEN "unreachable"
    ELSE "error"

\* main's healthy_agents
healthy_agents == {health_results[i].name : i \in {j \in DOMAIN health_results :
                                                    health_results[j].status = "healthy"}}

\* what the suite does not touch
nonSuiteVars ==
    <<_initialized, task, query, repeated, calls, queue, sent, label, outcome, toolResult,
      response, errorMessage, inHandler, partial, streamed, streamCalls, cancels,
      cancelRaised, overlapVars, scriptVars>>

InitSuite ==
    /\ Fresh
    /\ script = NoScript
    /\ pc = "suite_health"
    /\ calls = 0
    /\ task = NoTask
    /\ query = Unset

\* run_agent_health_check: the GET of the next agent's card; after the last
\* one the results go to main
SuiteHealthProbe(o) ==
    /\ pc = "suite_health"
    /\ health_results' = Append(health_results,
            [name |-> agent_urls[Len(health_results) + 1], status |-> HealthStatus(o)])
    /\ pc' = IF Len(health_results) + 1 = Len(agent_urls) THEN "suite_gate" ELSE "suite_health"
    /\ UNCHANGED <<nonSuiteVars, stages>>

\* main returns unless TimeAgent is among the healthy agents
SuiteHealthGate ==
    /\ pc = "suite_gate"
    /\ pc' = IF "TimeAgent" \in healthy_agents THEN "suite_direct" ELSE "suite_returned"
    /\ UNCHANGED <<nonSuiteVars, suiteVars>>

\* test_time_agent_directly: True for a card; main returns when it is False
SuiteDirect(o) ==
    /\ pc = "suite_direct"
    /\ stages' = Append(stages, [name |-> "test_time_agent_directly", returned |-> o = "card"])
    /\ pc' = IF o = "card" THEN "suite_integration" ELSE "suite_returned"
    /\ UNCHANGED <<nonSuiteVars, health_results>>

\* SuiteIntegration without the test of integration_test_success
SuiteIntegrationUngated(b) ==
    /\ pc = "suite_integration"
    /\ stages' = Append(stages,
            [name |-> "test_routing_agent_time_agent_integration", returned |-> b])
    /\ pc' = "suite_multi"
    /\ UNCHANGED <<nonSuiteVars, health_results>>

\* test_routing_agent_time_agent_integration: the multi-agent test follows
\* only when it returned True
SuiteIntegration(b) ==
    /\ pc = "suite_integration"
    /\ stages' = Append(stages,
            [name |-> "test_routing_agent_time_agent_integration", returned |-> b])
    /\ pc' = IF b THEN "suite_multi" ELSE "suite_summary"
    /\ UNCHANGED <<nonSuiteVars, health_results>>

\* test_time_agent_vs_other_agents: its value is not used
SuiteMultiAgent(b) ==
    /\ pc = "suite_multi"
    /\ stages' = Append(stages, [name |-> "test_time_agent_vs_other_agents", returned |-> b])
    /\ pc' = "suite_summary"
    /\ UNCHANGED <<nonSuiteVars, health_results>>

\* 'Test suite completed!' and the summary; main returns
SuiteSummary ==
    /\ pc = "suite_summary"
    /\ pc' = "suite_returned"
    /\ UNCHANGED <<nonSuiteVars, suiteVars>>

NextSuite ==
    \/ \E o \in CardOutcomes : SuiteHealthProbe(o)
    \/ SuiteHealthGate
    \/ \E o \in CardOutcomes : SuiteDirect(o)
    \/ \E b \in BOOLEAN : SuiteIntegration(b)
    \/ \E b \in BOOLEAN : SuiteMultiAgent(b)
    \/ SuiteSummary

\* one run of the suite
SpecSuite == InitSuite /\ [][NextSuite]_vars

-----------------------------------------------------------------------------
(* Claims *)

\* process_query has chosen its branch for a str query
Routed == pc \in {"awaiting_http", "returned"} /\ IsStr(query)

\* the keyword groups in the order C1 lists them
C1_Groups ==
    << { <<"l","i","s","t">>, <<"s","h","o","w">>, <<"c","o","n","t","a","i","n","e","r","s">>, <<"c","o","l","l","e","c","t","i","o","n","s">>, <<"d","a","t","a","b","a","s","e","s">> },
       { <<"d","e","s","c","r","i","b","e">>, <<"s","c","h","e","m","a">>, <<"s","t","r","u","c","t","u","r","e">>, <<"f","i","e","l","d","s">> },
       { <<"s","a","m","p","l","e">>, <<"e","x","a","m","p","l","e">>, <<"p","r","e","v","i","e","w">> },
       { <<"c","o","u","n","t">>, <<"h","o","w"," ","m","a","n","y">>, <<"n","u","m","b","e","r"," ","o","f">> },
       { <<"p","a","r","t","i","t","i","o","n">> },
       { <<"i","n","d","e","x">>, <<"i","n","d","e","x","i","n","g">>, <<"p","o","l","i","c","y">> },
       { <<"r","e","l","a","t","i","o","n","s","h","i","p">>, <<"l","i","n","k","s">>, <<"f","o","r","e","i","g","n"," ","k","e","y">>, <<"r","e","f","e","r","e","n","c","e","s">> },
       { <<"s","e","l","e","c","t">>, <<"f","r","o","m">> },
       { <<"t","i","m","e","_","a","g","e","n","t">>, <<"t","i","m","e","a","g","e","n","t">>, <<"t","i","m","e"," ","a","g","e","n","t">> } >>

\* the tool of each group
C1_Tools ==
    << "list_collections", "describe_container", "get_sample_documents",
       "count_documents", "get_partition_key_info", "get_indexing_policy",
       "find_implied_links", "query_cosmos", "query_cosmos" >>

\* the first group with a keyword in the lower-cased query, 0 when there is none
C1_FirstGroup(q) ==
    LET hits == {g \in DOMAIN C1_Groups : \E kw \in C1_Groups[g] : Contains(Lower(q), kw)}
    IN  IF hits = {} THEN 0 ELSE CHOOSE g \in hits : \A h \in hits : g <= h

\* text is a help text that echoes q
C1_EchoesQuery(text, q) ==
    /\ SubSeq(text, 1, 1) = HelpIntro
    /\ \E i \in DOMAIN text :
            /\ text[i] = "Your query: "
            /\ SubSeq(text, i + 1, i + 2 + Len(q)) = <<"\"">> \o q \o <<"\"">>

\* C1: the keyword groups are tested in the listed order against the lower-cased
\* query; the first group with a keyword in it decides: no tool but that
\* group's is called, and a query matching no group calls no tool and gets the
\* help text that echoes it.
C1_FirstGroupDecides ==
    Routed =>
        LET g == C1_FirstGroup(query.val)
        IN  /\ Len(sent) <= 1
            /\ g # 0 => \A i \in DOMAIN sent : sent[i].name = C1_Tools[g]
            /\ g = 0 =>
                /\ sent = <<>>
                /\ pc = "returned"
                /\ IsStr(response)
                /\ C1_EchoesQuery(response.val, query.val)

\* a query with keywords of the count and the sample group was answered by the
\* tool of the sample group, the earlier one
C1_Witness ==
    /\ pc = "returned"
    /\ query = PyStr(<<"c","o","u","n","t"," ","s","a","m","p","l","e">>)
    /\ Len(sent) = 1
    /\ sent[1].name = "get_sample_documents"

\* C2: an execute call whose initialization succeeded (or was done before) and
\* in which nothing raised has enqueued exactly a RUNNING/IN_PROGRESS status
\* update, the artifact with the agent's response and a COMPLETED status
\* update, in this order; the RUNNING update is there before process_query is
\* called, and nothing else is until it has returned.
C2_ThreeEventsInOrder ==
    /\ pc \in {"process_query", "awaiting_http", "returned"} =>
            /\ Len(queue) = 1
            /\ queue[1].kind = "status"
            /\ queue[1].state = "RUNNING"
            /\ queue[1].status = "IN_PROGRESS"
    /\ (pc = "done" /\ ~inHandler /\ errorMessage = <<>>) =>
            /\ Len(queue) = 3
            /\ queue[1].kind = "status"
            /\ queue[1].state = "RUNNING"
            /\ queue[1].status = "IN_PROGRESS"
            /\ queue[2].kind = "artifact"
            /\ queue[2].content = response
            /\ queue[3].kind = "status"
            /\ queue[3].state = "COMPLETED"
            /\ queue[3].status = "COMPLETED"
            /\ \A i \in 1..3 : queue[i].task_id = task.id

\* the second execute call of an executor, already initialized, ended without
\* an exception after a tool call
C2_Witness ==
    /\ pc = "done"
    /\ calls = 2
    /\ ~inHandler
    /\ errorMessage = <<>>
    /\ Len(sent) = 1
    /\ Len(queue) = 3
    /\ queue[3].state = "COMPLETED"

\* C3: process_query returns a text for every query string.
C3_AlwaysReturnsText ==
    (pc = "returned" /\ IsStr(query)) => IsStr(response)

\* the operation each example of the help text is advertised under
C4_Advertised ==
    { <<ListExample, "list_collections">>,
      <<DescribeExample, "describe_container">>,
      <<SampleExample, "get_sample_documents">>,
      <<CountExample, "count_documents">>,
      <<PartitionExample, "get_partition_key_info">>,
      <<IndexExample, "get_indexing_policy">>,
      <<LinkExample, "find_implied_links">> }

\* C4: each example request of the help text calls the operation it is
\* advertised under.
C4_ExamplesCallAdvertisedTool ==
    \A e \in C4_Advertised :
        (Routed /\ query = PyStr(e[1])) =>
            /\ Len(sent) = 1
            /\ sent[1].name = e[2]

\* C5: a query that mentions the time agent makes process_query call
\* query_cosmos with the fixed TimeAgent statement, and the response begins
\* with 'Time Agent data:'.
C5_TimeAgentQueryRuns ==
    (pc = "returned" /\ IsStr(query)
        /\ \E kw \in { <<"t","i","m","e","_","a","g","e","n","t">>, <<"t","i","m","e","a","g","e","n","t">>, <<"t","i","m","e"," ","a","g","e","n","t">> } :
                Contains(Lower(query.val), kw)) =>
        /\ Len(sent) = 1
        /\ sent[1].name = "query_cosmos"
        /\ sent[1].arguments =
             ("query" :> <<"S","E","L","E","C","T"," ","*"," ","F","R","O","M"," ","c"," ","W","H","E","R","E"," ","c",".","a","g","e","n","t","_","n","a","m","e"," ","="," ","'","T","i","m","e","A","g","e","n","t","'"," ","O","R","D","E","R"," ","B","Y"," ","c",".","_","t","s"," ","D","E","S","C">>)
        /\ IsStr(response)
        /\ SubSeq(response.val, 1, 1) = <<"Time Agent data:">>

\* q reads as a SQL statement: it begins with SELECT and has a FROM clause
C6_IsSqlStatement(q) ==
    /\ Len(q) >= 7
    /\ SubSeq(Lower(q), 1, 7) = <<"s","e","l","e","c","t"," ">>
    /\ Contains(Lower(q), <<" ","f","r","o","m"," ">>)

\* C6: a query that is a SQL statement is passed verbatim, in its original
\* case, as the query argument of query_cosmos, and the response begins with
\* 'Query results:'.
C6_SqlPassedVerbatim ==
    (pc = "returned" /\ IsStr(query) /\ C6_IsSqlStatement(query.val)) =>
        /\ Len(sent) = 1
        /\ sent[1].name = "query_cosmos"
        /\ sent[1].arguments = ("query" :> query.val)
        /\ IsStr(response)
        /\ SubSeq(response.val, 1, 1) = <<"Query results:">>

\* the label of the branch of each keyword group, in the order of C1_Groups
C7_Labels ==
    << "Available containers in the database:", "Container schema information:",
       "Sample documents:", "Document count:", "Partition key information:",
       "Indexing policy:", "Relationship analysis:", "Query results:",
       "Time Agent data:" >>

\* the MCP server answered HTTP 200 with a result whose content[0].text is a text
C7_TextAnswer ==
    /\ outcome.kind = "response"
    /\ outcome.status = 200
    /\ outcome.isJson
    /\ outcome.hasResult
    /\ outcome.content = "item"
    /\ outcome.hasText
    /\ IsStr(outcome.text)

\* C7: when the chosen branch calls a tool and the server answers HTTP 200 with
\* result.content[0].text = T, process_query returns the branch's label, a
\* newline and T unchanged, and execute enqueues an artifact whose content is
\* exactly that string.
C7_ResultForwardedUnchanged ==
    C7_TextAnswer =>
        /\ pc \in {"returned", "enqueue_completed"} =>
                /\ IsStr(response)
                /\ Len(response.val) = 2 + Len(outcome.text.val)
                /\ C1_FirstGroup(query.val) # 0
                /\ response.val[1] = C7_Labels[C1_FirstGroup(query.val)]
                /\ response.val[2] = "\n"
                /\ SubSeq(response.val, 3, Len(response.val)) = outcome.text.val
        /\ pc = "enqueue_completed" =>
                /\ queue[Len(queue)].kind = "artifact"
                /\ queue[Len(queue)].content = response

\* a count query was answered with a text, and the artifact carrying the
\* labelled text is in the queue
C7_Witness ==
    /\ pc = "enqueue_completed"
    /\ C7_TextAnswer
    /\ outcome.text.val # <<>>
    /\ sent[1].name = "count_documents"
    /\ queue[2].content = PyStr(<<"Document count:", "\n">> \o outcome.text.val)

\* the running execute call has called process_query, and its branch calls a tool
C8_ToolBranchTaken ==
    /\ pc \in {"awaiting_http", "returned", "enqueue_completed"}
    /\ label # <<>>

\* C8: a process_query call sends at most one POST: a failed tool call is not
\* sent again, and a repeated query sends a fresh request.
C8_OnePostPerCall ==
    /\ Len(sent) <= 1
    /\ C8_ToolBranchTaken => Len(sent) = 1
    /\ (pc = "returned" /\ IsStr(query) /\ C1_FirstGroup(query.val) > 1) => Len(sent) = 1

\* the query of the call before was sent again, its tool call failed, and one
\* POST was sent for it
C8_Witness ==
    /\ pc = "returned"
    /\ repeated
    /\ calls = 2
    /\ outcome.kind = "exception"
    /\ Len(sent) = 1

\* C9: _call_mcp_tool always returns a string: the result text for HTTP 200
\* with a result (also when there is an error member), 'Error: ' and the
\* message or 'Unknown error' for HTTP 200 with only an error, 'Unknown response
\* format' for HTTP 200 with neither, 'HTTP Error <status>: <body>' for another
\* status, and 'Error calling tool: <exception>' when sending or decoding raised.
C9_AlwaysReturnsString ==
    (pc = "returned" /\ outcome.kind # "none") =>
        LET o == outcome
            r == toolResult
            decoded == o.kind = "response" /\ o.status = 200 /\ o.isJson
        IN  /\ IsStr(r)
            /\ (decoded /\ o.hasResult /\ o.content = "item" /\ o.hasText) => r = o.text
            /\ (decoded /\ ~o.hasResult /\ o.hasError) =>
                    r.val = <<"Error: ">>
                            \o (IF o.hasMessage THEN o.message.val ELSE <<"Unknown error">>)
            /\ (decoded /\ ~o.hasResult /\ ~o.hasError) =>
                    r.val = <<"Unknown response format">>
            /\ (o.kind = "response" /\ o.status # 200) =>
                    /\ r.val[1] = "HTTP Error "
                    /\ r.val[Len(r.val) - Len(o.raw)] = ": "
                    /\ SubSeq(r.val, Len(r.val) - Len(o.raw) + 1, Len(r.val)) = o.raw
            /\ (o.kind = "exception" \/ (o.kind = "response" /\ o.status = 200 /\ ~o.isJson)) =>
                    r.val[1] = "Error calling tool: "

\* the digits of the first run of digits in q, by position
C10_FirstNumber(q) ==
    LET a == CHOOSE i \in DOMAIN q : IsDigit(q[i]) /\ \A j \in 1..(i - 1) : ~IsDigit(q[j])
        n == CHOOSE k \in 1..Len(q) :
                /\ \A j \in a..(a + k - 1) : j <= Len(q) /\ IsDigit(q[j])
                /\ (a + k > Len(q) \/ ~IsDigit(q[a + k]))
        Pow10[e \in 0..Len(q)] == IF e = 0 THEN 1 ELSE 10 * Pow10[e - 1]
        Sum[j \in 0..n] ==
            IF j = 0 THEN 0 ELSE Sum[j - 1] + DigitValue[q[a + j - 1]] * Pow10[n - j]
    IN  Sum[n]

\* the limit C10 states for q
C10_Limit(q) ==
    IF \A i \in DOMAIN q : ~IsDigit(q[i]) THEN 5
    ELSE IF C10_FirstNumber(q) < 10 THEN C10_FirstNumber(q) ELSE 10

\* C10: the sample branch passes limit 5 when the query has no digits and
\* otherwise min(n, 10), n the first run of digits; the limit sent to the MCP
\* server in a get_sample_documents call never exceeds 10.
C10_SampleLimitCapped ==
    (Routed /\ Len(sent) = 1 /\ sent[1].name = "get_sample_documents") =>
        LET args == sent[1].arguments
        IN  IF "limit" \in DOMAIN args
            THEN args["limit"] = C10_Limit(query.val) /\ args["limit"] <= 10
            ELSE C10_Limit(query.val) = 5

\* a request for 25 samples was sent with limit 10
C10_Witness ==
    /\ pc = "awaiting_http"
    /\ query = PyStr(<<"s","a","m","p","l","e"," ","2","5">>)
    /\ sent[1].name = "get_sample_documents"
    /\ sent[1].arguments = ("limit" :> 10)

\* agent.initialize() returned False in the running execute call
C11_InitFailed == ~_initialized /\ pc \notin {"idle", "initialize"}

C11_IsErrorArtifact(e) == e.kind = "artifact" /\ e.title = "Error"

C11_IsStatus(e, state) == e.kind = "status" /\ e.state = state

C12_Original ==
    (inHandler /\ task.present /\ pc \in {"done", "raised"}) =>
        /\ pc = "done"
        /\ Len(queue) >= 2
        /\ C11_IsErrorArtifact(queue[Len(queue) - 1])
        /\ C11_IsStatus(queue[Len(queue)], "FAILED")
        /\ queue[Len(queue)].message = errorMessage

\* C12 (amended): an exception raised in the try body of a request with a task
\* makes execute enqueue an error artifact and then a FAILED status update
\* carrying the error message, and return, unless an enqueue of that
\* _send_error call raises too: then execute raises, and no FAILED status
\* update is in the queue.
C12_ExceptionReported ==
    /\ (inHandler /\ task.present /\ pc = "done") =>
            /\ Len(queue) >= 2
            /\ C11_IsErrorArtifact(queue[Len(queue) - 1])
            /\ queue[Len(queue) - 1].content.val =
                    <<"Sorry, I encountered an error while querying the Cosmos DB: ">>
                    \o errorMessage
            /\ C11_IsStatus(queue[Len(queue)], "FAILED")
            /\ queue[Len(queue)].message = errorMessage
            /\ errorMessage[1] = "Error executing Cosmos Query Agent task: "
    /\ pc = "raised" =>
            /\ inHandler
            /\ \A i \in DOMAIN queue : ~C11_IsStatus(queue[i], "FAILED")

\* the enqueue of the result artifact raised, and the call returned after the
\* RUNNING update, the error artifact and the FAILED update
C12_Witness ==
    /\ pc = "done"
    /\ inHandler
    /\ task.present
    /\ response # Unset
    /\ Len(queue) = 3
    /\ queue[1].state = "RUNNING"
    /\ queue[3].state = "FAILED"

\* the terminal status updates among the events
C17_Terminal ==
    {i \in DOMAIN queue : C11_IsStatus(queue[i], "COMPLETED") \/ C11_IsStatus(queue[i], "FAILED")}

\* C17: an execute call that returns normally has enqueued exactly one terminal
\* status update, COMPLETED or FAILED, and it is its last event.
C17_OneTerminalStatusLast ==
    pc = "done" => C17_Terminal = {Len(queue)} /\ queue # <<>>

\* a call returned with FAILED as the last of four events: the RUNNING update,
\* the result artifact, and after the COMPLETED enqueue raised the error pair
C17_Witness ==
    /\ pc = "done"
    /\ Len(queue) = 4
    /\ queue[2].title = "Cosmos DB Query Result"
    /\ queue[4].state = "FAILED"
    /\ C17_Terminal = {4}

\* the events of the running SemanticKernelMCPAgentExecutor.execute call that
\* are Task objects
C13_TaskEvents == {i \in DOMAIN queue : queue[i].kind = "task"}

\* C13: a request without current task gets a new task that is enqueued once,
\* as the first event of the call and so before every status or artifact
\* event, which all carry its id; it is enqueued before the stream is called
\* and before the failed update of the initialization; a request with a
\* current task gets no task event.
C13_TaskEnqueuedOnceFirst ==
    /\ task.present => C13_TaskEvents = {}
    /\ (~task.present /\ queue # <<>>) => C13_TaskEvents = {1}
    /\ (~task.present /\ pc \notin {"pw_idle", "pw_initialize", "pw_get_task",
                                      "pw_init_failed_task"})
            => C13_TaskEvents = {1}
    /\ \A i \in DOMAIN queue : queue[i].task_id = TaskId

\* a call without current task has returned after the stream with three
\* events, the new task first
C13_Witness ==
    /\ pc = "pw_done"
    /\ ~task.present
    /\ Len(queue) = 3
    /\ queue[1] = TaskEvent("new-task")
    /\ queue[3].state = "completed"

\* the events of the running call that are no Task objects
C14_Updates == SelectSeq(queue, LAMBDA e : e.kind # "task")

C15_InitRaised ==
    /\ errorMessage # <<>>
    /\ errorMessage[1] = "Failed to initialize Playwright agent: "

\* C15: after initialize_playwright raised, the call does not call
\* agent.stream and enqueues no artifact; returned, its only update is one
\* failed status for the task; _initialized is False, and a call that runs
\* while _initialized is False is at the initialization or had it raise.
C15_InitFailureReported ==
    /\ C15_InitRaised =>
            /\ streamCalls = 0
            /\ ~_initialized
            /\ \A i \in DOMAIN queue : queue[i].kind # "artifact-update"
            /\ pc = "pw_done" =>
                    /\ Len(C14_Updates) = 1
                    /\ C14_Updates[1].state = "failed"
                    /\ C14_Updates[1].task_id = TaskId
    /\ (pc # "pw_idle" /\ ~_initialized) => (pc = "pw_initialize" \/ C15_InitRaised)

\* the second call's initialization raised as the first call's did, and the
\* call returned after its failed update
C15_Witness ==
    /\ pc = "pw_done"
    /\ calls = 2
    /\ C15_InitRaised
    /\ task.present
    /\ Len(queue) = 1
    /\ queue[1].state = "failed"

\* C16: a cancel call can be made in every state of either executor, and every
\* cancel call raises its exception, enqueues no event and leaves _initialized
\* and the running execute call as they are.
C16_CancelAlwaysRaises ==
    /\ [](cancels < MaxCancels => ENABLED (CosmosCancel \/ PwCancel))
    /\ [][cancels' # cancels =>
            /\ cancelRaised' = IF pc \in PwStates
                               THEN <<"cancel not supported">>
                               ELSE <<"Cosmos Query Agent task was cancelled">>
            /\ queue' = queue
            /\ _initialized' = _initialized
            /\ pc' = pc]_vars
    /\ [](cancels = 0 <=> cancelRaised = <<>>)

\* cancel raised while the playwright executor was reading the stream, after
\* the new task was enqueued
C16_Witness ==
    /\ cancels > 0
    /\ cancelRaised = <<"cancel not supported">>
    /\ pc = "pw_streaming"
    /\ _initialized
    /\ Len(queue) = 1

\* the agent's initialization is being awaited
C18_Initializing == pc \in {"initialize", "pw_initialize"}

\* C18: over the execute calls of one executor, one after the other,
\* _initialized changes only from False to True and only in the step in which
\* the awaited initialization succeeds; an initialization that fails leaves
\* it False, and a call started while it is False awaits the initialization;
\* while it is True no call awaits the initialization.
C18_InitializedOnlyBySuccess ==
    /\ [][_initialized' # _initialized =>
            /\ ~_initialized
            /\ _initialized'
            /\ C18_Initializing
            /\ pc' \in {"get_task", "pw_get_task"}]_vars
    /\ [][(C18_Initializing /\ pc' \in {"send_error_artifact", "pw_init_failed_task"})
            => ~_initialized']_vars
    /\ [][(pc \in {"idle", "pw_idle"} /\ pc' # pc)
            => (C18_Initializing' <=> ~_initialized)]_vars
    /\ [](C18_Initializing => ~_initialized)

\* the second call of the Cosmos executor awaits the initialization again:
\* the first call's initialization failed
C18_Witness ==
    /\ calls = 2
    /\ pc = "initialize"
    /\ ~_initialized
    /\ queue = <<>>

\* C19: across overlapping execute calls on one executor the agent's
\* initialization is started at most once as long as no initialization fails.
C19_InitStartedAtMostOnce ==
    initFailures = 0 => initStarts <= 1

\* the method the i-th request of a handshake has by the MCP sequence
C20_MethodAt(i) ==
    IF i = 1 THEN "initialize"
    ELSE IF i = 2 THEN "notifications/initialized"
    ELSE "tools/call"

\* the session id of the initialize response, by the header the script reads
C20_ResponseSession ==
    IF script = "proper_mcp_sequence" THEN init_response.mcpSessionId
    ELSE IF init_response.xSessionId.type = "str" /\ init_response.xSessionId.val # <<>>
    THEN init_response.xSessionId
    ELSE init_response.mcpSessionId

\* C20: both scripts send initialize first, notifications/initialized second
\* and only tools/call requests after it; the notification and every
\* tools/call carry as mcp-session-id the session id of the initialize
\* response; a request is sent only when no response is outstanding, and the
\* initialize response has been received before the second request is sent.
C20_HandshakeInOrder ==
    /\ [](\A i \in DOMAIN requests :
            /\ requests[i].method = C20_MethodAt(i)
            /\ i >= 2 =>
                /\ init_response.received
                /\ requests[i].session.type = "str"
                /\ requests[i].session = C20_ResponseSession)
    /\ [][requests' # requests =>
            /\ ~awaiting
            /\ awaiting'
            /\ Len(requests') = Len(requests) + 1
            /\ SubSeq(requests', 1, Len(requests)) = requests]_vars
    /\ [](awaiting => requests # <<>>)

\* test_simple_mcp has sent its six requests, the session id coming from the
\* mcp-session-id header as X-Session-Id was absent, and has returned
C20_Witness ==
    /\ script = "test_simple_mcp"
    /\ pc = "sc_returned"
    /\ Len(requests) = 6
    /\ init_response.xSessionId = PyNone
    /\ requests[2].session = PyStr(<<"session-1">>)
    /\ requests[6].name = "get_stats"
    /\ requests[6].session = PyStr(<<"session-1">>)

\* C24: when test_simple_mcp has printed its final summary, the response to
\* each tools/call it sent (log_action twice, query_cosmos, get_stats) held a
\* JSON-RPC result.
C24_SummaryMeansResults ==
    (script = "test_simple_mcp" /\ reported) =>
        /\ Len(results) = Len(ToolCalls(script))
        /\ \A i \in DOMAIN results : results[i] = "result"

\* the header the script reads in its first response holds no session id
C21_NoSessionId ==
    /\ script \in ProbeScripts
    /\ init_response.received
    /\ LET none(h) == h.type # "str" \/ h.val = <<>>
       IN  IF script = "test_mcp_complete"
                THEN none(init_response.mcpSessionId) /\ none(init_response.xSessionId)
           ELSE IF script = "test_cosmos_query" THEN none(init_response.xSessionId)
           ELSE none(init_response.mcpSessionId)

\* C21: when the first response holds no session id in the header the script
\* reads, the script has returned after its first request: it has sent no
\* other request, waits for no response, and has not reported success (its
\* value is False or None).
C21_StopsWithoutSession ==
    C21_NoSessionId =>
        /\ Len(requests) = 1
        /\ requests[1] = FirstRequest(script)
        /\ ~awaiting
        /\ ~reported
        /\ pc \in {"pr_False", "pr_None"}
        /\ results = <<>>

\* test_mcp_complete got an empty mcp-session-id and no x-session-id with
\* status 200, and returned
C21_Witness ==
    /\ script = "test_mcp_complete"
    /\ C21_NoSessionId
    /\ init_response.status_code = HttpOk
    /\ init_response.mcpSessionId = PyStr(<<>>)
    /\ pc = "pr_None"

\* C22: test_direct_cosmos_insert sends one tools/call per candidate name, in
\* the listed order and at most five; the first response that contains a
\* result ends the sending and the script returns True; after an error
\* response it goes on to the next name; it returns False exactly when no
\* response contained a result.
C22_FirstResultWins ==
    script = "test_direct_cosmos_insert" =>
        /\ Len(requests) <= 1 + Len(tool_names_to_try)
        /\ \A k \in 2 .. Len(requests) :
                /\ requests[k].method = "tools/call"
                /\ requests[k].name = tool_names_to_try[k - 1]
        /\ \A i \in DOMAIN results :
                HasResult(results[i]) =>
                    /\ i = Len(results)
                    /\ Len(requests) = i + 1
                    /\ pc = "pr_True"
        /\ (/\ results # <<>>
            /\ Len(results) < Len(tool_names_to_try)
            /\ Len(requests) = Len(results) + 1
            /\ HasError(results[Len(results)]))
                => pc = "pr_send"
        /\ pc = "pr_True" => \E i \in DOMAIN results : HasResult(results[i])
        /\ pc = "pr_False" => \A i \in DOMAIN results : ~HasResult(results[i])

\* the stages of the suite in main's order
C23_Order ==
    <<"test_time_agent_directly", "test_routing_agent_time_agent_integration",
      "test_time_agent_vs_other_agents">>

\* the health check has reported TimeAgent as healthy
C23_TimeAgentHealthy ==
    /\ Len(health_results) = 3
    /\ \E i \in DOMAIN health_results :
            health_results[i].name = "TimeAgent" /\ health_results[i].status = "healthy"

\* C23: the stages run in main's order; the direct test has run only if the
\* completed health check reported TimeAgent healthy, and every later stage
\* only if the stage before it returned True; so after a gate failed no
\* later stage has run.
C23_StagesGated ==
    /\ Len(stages) <= 3
    /\ \A i \in DOMAIN stages :
            /\ stages[i].name = C23_Order[i]
            /\ C23_TimeAgentHealthy
            /\ i > 1 => stages[i - 1].returned
    /\ (pc = "suite_returned" /\ ~C23_TimeAgentHealthy) => stages = <<>>

\* the three stages have run and main has returned
C23_Witness ==
    /\ pc = "suite_returned"
    /\ Len(stages) = 3
    /\ stages[2].returned
    /\ ~stages[3].returned

====
